---- MODULE Spec2Model ----
(***************************************************************************)
(* Session multiplexer of nexashell (src-tauri/src/ssh.rs, terminal.rs):   *)
(* the SshManager / TerminalManager registries, the per-session I/O pump,  *)
(* the status prober, the SFTP uploader, probe_remote_path and the resize  *)
(* task, with the tokio mutexes they share.                                *)
(*                                                                         *)
(* A "connection" c \in Conns is one call of connect_ssh / connect_local   *)
(* together with everything that call creates (transport, queues, flags,   *)
(* tasks).  Several connections may carry the same session id.             *)
(***************************************************************************)
EXTENDS Integers, Sequences, FiniteSets, TLC

\* ------------------------------------------------------------------ bounds
MaxConn == 2
MaxReads == 2
MaxInputs == 2
MaxChunks == 3
MaxTicks == 2
MaxRetries == 2

\* ------------------------------------------------------- program constants
INITIAL_BATCH_SIZE_THRESHOLD == 200
INITIAL_BATCH_TIME_MS == 100
INITIAL_BUFFERING_TIMEOUT_MS == 2000
NORMAL_BATCH_SIZE_THRESHOLD == 1024
NORMAL_BATCH_TIME_MS == 20
FIRST_SEQ == 1
STATUS_SLEEP_MS == 1500

Conns == 1..MaxConn
SessionIds == {"s1", "s2"}
\* the value of a registry map at an id it has no entry for
NoConn == CHOOSE n \in 0..MaxConn : n \notin Conns

\* sizes (bytes) a successful channel read may return, and clock advances (ms)
ReadSizes == {150, 1100}
TickSteps == {110, 2000}
Inputs == {"a", "b"}

\* steps of connect_ssh / connect_local at which establishment may fail
SshFailSteps == {"resolve", "tcp", "session_new", "handshake", "auth",
                 "not_authenticated", "channel", "pty", "shell", "join"}
LocalFailSteps == {"openpty", "spawn", "clone_reader", "take_writer"}

VARIABLES
    now,        \* wall clock, ms
    ticks,      \* number of clock advances so far
    conn,       \* per connection: progress and result of the connect call
    sessions,   \* SshManager.sessions: id -> connection (0: absent)
    channels,   \* SshManager.channels: id -> connection (0: absent)
    terminals,  \* TerminalManager.channels: id -> connection (0: absent)
    sessionsW,  \* connection whose connect_ssh holds the sessions write lock
    disc,       \* per id: progress of a disconnect_ssh call in flight
    chan,       \* per connection: SshChannelInfo / TerminalInfo shared state
    pump,       \* per connection: locals and position of the I/O task
    transport,  \* per connection: session mutex, channel mutex, blocking flag
    prober,     \* per connection: monitoring task
    upload,     \* per connection: SFTP upload thread
    probe,      \* per connection: probe_remote_path call
    resize,     \* per connection: spawned resize task, size changes issued
    hist        \* per connection: observations (events emitted, call results)

vars == <<now, ticks, conn, sessions, channels, terminals, sessionsW, disc, chan, pump,
          transport, prober, upload, probe, resize, hist>>

regVars == <<sessions, channels, terminals, sessionsW, disc>>
auxVars == <<prober, upload, probe, resize>>

\* ----------------------------------------------------------------- helpers
IsPrefix(s, t) == Len(s) <= Len(t) /\ SubSeq(t, 1, Len(s)) = s

Remove(q, w) == SelectSeq(q, LAMBDA x : x # w)

\* OutputChunk::new(seq, output): the output is represented by its length
OutputChunk(seq, len, ts) == [seq |-> seq, len |-> len, ts |-> ts]

\* next_seq.fetch_add(1): the counter after the call (the call returns n)
FetchAddBad(n) == n
FetchAdd(n) == n + 1


\* Number of data reads made so far by the pumps of connections 1..n.
RECURSIVE ReadsUpTo(_, _)
ReadsUpTo(h, n) == IF n = 0 THEN 0 ELSE h[n].reads + ReadsUpTo(h, n - 1)

\* ---------------------------------------------------------- initial state
\* SshManager::default() / TerminalManager::default(): empty maps; no
\* connection has been attempted.
NoChan == [stop_flag |-> FALSE, next_seq |-> 0, initial_outputs |-> <<>>,
           outq |-> <<>>, inq |-> <<>>, aborted |-> FALSE]

NoPump == [pc |-> "none", inpc |-> "none", pending |-> 0, last_emit |-> 0,
           seen_first_output |-> FALSE, in_initial_buffering |-> FALSE,
           start |-> 0, cur |-> "none"]

NoTransport == [holder |-> "free", waiters |-> <<>>, chHolder |-> "free",
                blocking |-> FALSE, bypass |-> 0]

\* A disconnect_ssh call in flight on an id (pc), and what remains of the
\* calls made on it: gone (its channels entry was removed and none inserted
\* since), fresh (a call returned, gone at its return and ever since),
\* second/twice (a call started, and returned, while fresh); lfresh and
\* ltwice are the same for disconnect_local.  upret is the result of the last
\* upload_file_sftp call on the id that found no entry.  For a disconnect_all
\* call in flight: `all` is the place of the id in the call (skip: not in the
\* snapshot; todo, doing, done: its disconnect_ssh), rlock whether the call
\* holds the read lock on channels, started and busy what the connect calls
\* were doing when the snapshot was taken.
NoDisc == [pc |-> "idle", gone |-> FALSE, fresh |-> FALSE, second |-> FALSE,
           twice |-> FALSE, ret |-> "none", lfresh |-> FALSE, ltwice |-> FALSE,
           lret |-> "none", upret |-> "none", all |-> "none", rlock |-> FALSE,
           started |-> {}, busy |-> FALSE]

\* The upload thread of a connection: its position, its locals (chunks
\* written, is_first_chunk, the size n of the chunk in hand, total_written in
\* `bytes`), the result of the upload_file_sftp call that started it, the
\* `upload-progress` events it has emitted and the remote file: untouched
\* (absent, or with whatever it held before), written with the content
\* `data`, or left in no particular state by a failed transfer.
RemoteUntouched == [st |-> "untouched", data |-> <<>>]
RemoteUnspecified == [st |-> "unspecified", data |-> <<>>]

NoUpload == [pc |-> "none", written |-> 0, first |-> TRUE, res |-> "none",
             err |-> "none", n |-> 0, bytes |-> 0, ret |-> "none",
             events |-> <<>>, remote |-> RemoteUntouched]

\* What is recorded about a connection for the properties: the chunks emitted,
\* drained and replayed, the inputs accepted on its input queue, written to
\* its shell and sent (calls and events), the data reads made and the
\* bytes they returned,
\* whether the last read found no data while an upload was running (dry),
\* whether output is pending that arrived and was read while an upload was
\* running (held), the time at which the oldest byte of the pending
\* output (or, with none pending, of the last chunk) was read (since), and
\* the time at which the monitoring task last got the session mutex and
\* issued its exec (exec_at).
\* The monitoring task of a connection: its position, its locals (the raw CPU
\* and network readings of the last fetch that succeeded, the Instant stored
\* with the network reading, start_time of the tick), the number of times
\* the exec of the tick was tried again, the time its sleep began, the result
\* of its last fetch and the `ssh-status` events it has emitted.
NoProber == [pc |-> "none", last_cpu_read |-> "none", last_net_read |-> "none",
             last_net_time |-> 0, start_time |-> 0, retries |-> 0, asleep |-> 0,
             res |-> "none", statuses |-> <<>>]

NoHist == [emitted |-> <<>>, drained |-> <<>>, replay |-> <<>>,
           written |-> <<>>, reads |-> 0, sent |-> 0, dry |-> FALSE,
           held |-> FALSE, accepted |-> <<>>, since |-> 0, exec_at |-> 0,
           read_bytes |-> 0]

Init ==
    /\ now = 0
    /\ ticks = 0
    /\ conn = [c \in Conns |-> [pc |-> "idle", id |-> "none", kind |-> "none",
                                step |-> "none", res |-> "none",
                                listeners |-> FALSE]]
    /\ sessions = [i \in SessionIds |-> NoConn]
    /\ channels = [i \in SessionIds |-> NoConn]
    /\ terminals = [i \in SessionIds |-> NoConn]
    /\ sessionsW = NoConn
    /\ disc = [i \in SessionIds |-> NoDisc]
    /\ chan = [c \in Conns |-> NoChan]
    /\ pump = [c \in Conns |-> NoPump]
    /\ transport = [c \in Conns |-> NoTransport]
    /\ prober = [c \in Conns |-> NoProber]
    /\ upload = [c \in Conns |-> NoUpload]
    /\ probe = [c \in Conns |-> [pc |-> "none", res |-> "none"]]
    /\ resize = [c \in Conns |-> [pc |-> "none", issued |-> 0]]
    /\ hist = [c \in Conns |-> NoHist]

\* ------------------------------------------------------------ connect_ssh
\* The error connect_ssh returns when establishment fails at `step`.
SshConnectError(step) ==
    CASE step \in {"resolve", "tcp"} -> "ConnectionFailed"
      [] step \in {"session_new", "handshake"} -> "OperationFailed"
      [] step \in {"auth", "not_authenticated"} -> "AuthenticationFailed"
      [] step \in {"channel", "pty", "shell"} -> "ChannelError"
      [] OTHER -> "TaskError"

\* Whether the connect call registers its listeners and starts its tasks when
\* establishment ended with `outcome` ("ok" or the failing step).
StartsWorkersBad(outcome) == TRUE
StartsWorkers(outcome) == outcome = "ok"

\* What connect_ssh creates in steps 2-5: the queues, flags and counters of
\* the connection, its listeners, the I/O task and the monitoring task.
SpawnSsh(c) ==
    /\ chan' = [chan EXCEPT ![c] = [NoChan EXCEPT !.next_seq = FIRST_SEQ]]
    /\ pump' = [pump EXCEPT ![c] = [NoPump EXCEPT !.pc = "head",
                                      !.last_emit = now, !.start = now,
                                      !.in_initial_buffering = TRUE]]
    /\ prober' = [prober EXCEPT ![c].pc = "head"]
    /\ UNCHANGED <<upload, probe, resize>>

\* The record of a connect call after its establishment phase: on failure
\* the call has returned the error.
AfterEstablish(i, kind, outcome, err) ==
    [pc |-> IF outcome = "ok" THEN "spawned" ELSE "failed",
     id |-> i, kind |-> kind, step |-> outcome,
     res |-> IF outcome = "ok" THEN "none" ELSE err,
     listeners |-> StartsWorkers(outcome)]

\* connect_ssh up to the spawn of the tasks: the blocking establishment
\* (outcome "ok" or the step that failed), then steps 2-5 when it succeeded;
\* on failure the error is returned at once.
ConnectSsh(c, i, outcome) ==
    /\ conn[c].pc = "idle"
    /\ \A d \in Conns : d < c => conn[d].pc # "idle"
    /\ conn' = [conn EXCEPT ![c] =
                  AfterEstablish(i, "ssh", outcome, SshConnectError(outcome))]
    /\ IF StartsWorkers(outcome)
       THEN SpawnSsh(c)
       ELSE UNCHANGED <<chan, pump, prober, upload, probe, resize>>
    /\ UNCHANGED <<now, ticks, regVars, transport, hist>>

\* Whether a call holds a registry lock at a position between two of its
\* steps.  connect_ssh holds the sessions write lock while it takes the
\* channels write lock; upload_file_sftp and probe_remote_path drop the
\* channels read guard at the end of the lookup block, before the thread is
\* spawned and before blocking_lock(); the other calls take and drop their
\* guard within one step.
RegistryHeldBad(call, pc) ==
    \/ call = "connect_ssh" /\ pc = "regS"
    \/ call = "probe_remote_path" /\ pc \in {"lock", "exec"}
RegistryHeld(call, pc) == call = "connect_ssh" /\ pc = "regS"

\* Whether some call holds the read lock on channels: a writer waits for it.
ChannelsReadHeld ==
    \/ \E i \in SessionIds : disc[i].rlock
    \/ \E c \in Conns : \/ RegistryHeld("upload_file_sftp", upload[c].pc)
                         \/ RegistryHeld("probe_remote_path", probe[c].pc)

\* Whether disconnect_ssh still holds the write lock on channels when it
\* takes the one on sessions: the guard lives in the `if let` block of the
\* first half and is dropped at its end.
ChannelsGuardKeptBad == TRUE
ChannelsGuardKept == FALSE

\* Whether some disconnect_ssh call holds the write lock on channels between
\* its two halves: a reader or another writer waits for it.
ChannelsWriteHeld ==
    \E i \in SessionIds : disc[i].pc = "sessions" /\ ChannelsGuardKept

\* connect_ssh, step 6, first half: take the sessions write lock and insert.
ConnectSshRegSessions(c) ==
    /\ conn[c].pc = "spawned" /\ conn[c].kind = "ssh"
    /\ sessionsW = NoConn
    /\ sessionsW' = c
    /\ sessions' = [sessions EXCEPT ![conn[c].id] = c]
    /\ conn' = [conn EXCEPT ![c].pc = "regS"]
    /\ UNCHANGED <<now, ticks, channels, terminals, disc, chan, pump, transport,
                   auxVars, hist>>

\* connect_ssh, step 6, second half: take the channels write lock, insert the
\* SshChannelInfo (replacing, and thereby dropping, an entry already stored
\* under the id), release both locks and return Ok.
ConnectSshRegChannels(c) ==
    /\ conn[c].pc = "regS"
    /\ ~ChannelsReadHeld
    /\ ~ChannelsWriteHeld
    /\ channels' = [channels EXCEPT ![conn[c].id] = c]
    /\ sessionsW' = NoConn
    /\ conn' = [conn EXCEPT ![c].pc = "done", ![c].res = "ok"]
    /\ disc' = [disc EXCEPT ![conn[c].id].gone = FALSE,
                            ![conn[c].id].fresh = FALSE,
                            ![conn[c].id].second = FALSE,
                            ![conn[c].id].twice = FALSE]
    /\ UNCHANGED <<now, ticks, sessions, terminals, chan, pump, transport, auxVars, hist>>

\* ---------------------------------------------------------- connect_local
LocalConnectError(step) == "SpawnFailed"

\* What connect_local creates in steps 3-5: the input queue, flags, the
\* listeners, the blocking output task and the input task.
SpawnLocal(c) ==
    /\ chan' = [chan EXCEPT ![c] = [NoChan EXCEPT !.next_seq = FIRST_SEQ]]
    /\ pump' = [pump EXCEPT ![c] = [NoPump EXCEPT !.pc = "lhead", !.inpc = "recv",
                                      !.start = now, !.last_emit = now]]

\* connect_local up to the spawn of the tasks.
ConnectLocal(c, i, outcome) ==
    /\ conn[c].pc = "idle"
    /\ \A d \in Conns : d < c => conn[d].pc # "idle"
    /\ conn' = [conn EXCEPT ![c] =
                  AfterEstablish(i, "local", outcome, LocalConnectError(outcome))]
    /\ IF StartsWorkers(outcome)
       THEN SpawnLocal(c)
       ELSE UNCHANGED <<chan, pump>>
    /\ UNCHANGED <<now, ticks, regVars, transport, auxVars, hist>>

\* connect_local, step 6: insert the TerminalInfo (replacing an entry already
\* stored under the id) and return Ok.
ConnectLocalRegister(c) ==
    /\ conn[c].pc = "spawned" /\ conn[c].kind = "local"
    /\ terminals' = [terminals EXCEPT ![conn[c].id] = c]
    /\ conn' = [conn EXCEPT ![c].pc = "done", ![c].res = "ok"]
    /\ disc' = [disc EXCEPT ![conn[c].id].lfresh = FALSE,
                            ![conn[c].id].ltwice = FALSE]
    /\ UNCHANGED <<now, ticks, sessions, channels, sessionsW, chan, pump,
                   transport, auxVars, hist>>

\* --------------------------------------------------- disconnect / lookups
\* The value disconnect_ssh and disconnect_local return.
DisconnectResult == "ok"

\* channels.remove(session_id) in disconnect_ssh: the map afterwards.
RemoveEntryBad(map, i) == map
RemoveEntry(map, i) == [map EXCEPT ![i] = NoConn]

\* What disconnect does to the removed entry: stop flag set, handles aborted.
SignalStop(ch) == [ch EXCEPT !.stop_flag = TRUE, !.aborted = TRUE]

\* Whether a disconnect_all call is in flight.  disconnect_all runs in the
\* exit handler and disconnect_ssh is a synchronous command, both on the main
\* thread: while the call is in flight the only disconnect_ssh calls are its
\* own, one after the other.
AllInFlight == \E i \in SessionIds : disc[i].all # "none"

\* disconnect_ssh, first block: under the channels write lock remove the
\* entry and, when there was one, set its stop flag and abort its handles.
DisconnectChannels(i) ==
    /\ disc[i].pc = "idle"
    /\ ~ChannelsReadHeld
    /\ ~ChannelsWriteHeld
    /\ AllInFlight => disc[i].all = "todo" /\ \A j \in SessionIds : disc[j].all # "doing"
    /\ channels' = RemoveEntry(channels, i)
    /\ chan' = IF channels[i] # NoConn
               THEN [chan EXCEPT ![channels[i]] = SignalStop(@)]
               ELSE chan
    /\ disc' = [disc EXCEPT ![i].pc = "sessions", ![i].gone = TRUE,
                            ![i].second = disc[i].fresh,
                            ![i].all = IF @ = "todo" THEN "doing" ELSE @]
    /\ UNCHANGED <<now, ticks, conn, sessions, terminals, sessionsW, pump, transport,
                   auxVars, hist>>

\* disconnect_ssh, second block: under the sessions write lock remove the
\* configuration, then return Ok.
DisconnectSessions(i) ==
    /\ disc[i].pc = "sessions"
    /\ sessionsW = NoConn
    /\ sessions' = RemoveEntry(sessions, i)
    /\ disc' = [disc EXCEPT ![i].pc = "idle", ![i].fresh = disc[i].gone,
                            ![i].twice = disc[i].second /\ disc[i].gone,
                            ![i].ret = DisconnectResult,
                            ![i].all = IF @ = "doing" THEN "done" ELSE @]
    /\ UNCHANGED <<now, ticks, conn, channels, terminals, sessionsW, chan, pump,
                   transport, auxVars, hist>>

\* Whether disconnect_all still holds the read lock on channels after the
\* statement that takes the snapshot: the guard is dropped with the statement.
ReadLockAfterSnapshotBad == TRUE
ReadLockAfterSnapshot == FALSE

\* Whether a connect call is between its start and its return.
ConnectRunning(c) == conn[c].pc \in {"spawned", "regS"}

\* disconnect_all, first statement: under the channels read lock collect the
\* ids that have an entry.
DisconnectAllSnapshot ==
    /\ ~AllInFlight
    /\ \A i \in SessionIds : disc[i].pc = "idle"
    /\ disc' = [i \in SessionIds |->
                 [disc[i] EXCEPT
                    !.all = IF channels[i] # NoConn THEN "todo" ELSE "skip",
                    !.rlock = ReadLockAfterSnapshot,
                    !.started = {c \in Conns : conn[c].pc # "idle"},
                    !.busy = \E c \in Conns : ConnectRunning(c)]]
    /\ UNCHANGED <<now, ticks, conn, sessions, channels, terminals, sessionsW,
                   chan, pump, transport, auxVars, hist>>

\* disconnect_all: the loop over the snapshot has ended (each id in it went
\* through disconnect_ssh) and the call returns.
DisconnectAllReturn ==
    /\ AllInFlight
    /\ \A i \in SessionIds : disc[i].all \in {"skip", "done"}
    /\ disc' = [i \in SessionIds |->
                 [disc[i] EXCEPT !.all = "none", !.rlock = FALSE,
                                 !.started = {}, !.busy = FALSE]]
    /\ UNCHANGED <<now, ticks, conn, sessions, channels, terminals, sessionsW,
                   chan, pump, transport, auxVars, hist>>

\* disconnect_local: remove the entry, set its stop flag, abort the handle of
\* the (blocking) output task, return Ok.
DisconnectLocal(i) ==
    /\ terminals' = RemoveEntry(terminals, i)
    /\ chan' = IF terminals[i] # NoConn
               THEN [chan EXCEPT ![terminals[i]] = SignalStop(@)]
               ELSE chan
    /\ disc' = [disc EXCEPT ![i].lret = DisconnectResult,
                            ![i].lfresh = TRUE, ![i].ltwice = disc[i].lfresh]
    /\ UNCHANGED <<now, ticks, conn, sessions, channels, sessionsW, pump, transport,
                   auxVars, hist>>

\* has_session(id)
HasSession(i) == sessions[i] # NoConn

\* The result of send_ssh_input(id, _) in the current state: the lookup in
\* channels, then input_sender.send, which fails once the receiver (owned by
\* the I/O task) is gone.
SendResultBad(i) ==
    IF channels[i] = NoConn THEN "SessionNotFound" ELSE "ok"
SendResult(i) ==
    IF channels[i] = NoConn THEN "SessionNotFound"
    ELSE IF pump[channels[i]].pc = "done" THEN "ChannelError"
    ELSE "ok"

\* input_sender.send(x) on the unbounded queue q: the queue afterwards.
EnqueueBad(q, x) == <<x>> \o q
Enqueue(q, x) == Append(q, x)

\* send_ssh_input(id, x)
SendInput(i, x) ==
    /\ channels[i] # NoConn
    /\ hist[channels[i]].sent < MaxInputs
    /\ IF SendResult(i) = "ok"
       THEN /\ chan' = [chan EXCEPT ![channels[i]].inq = Enqueue(@, x)]
            /\ hist' = [hist EXCEPT ![channels[i]].sent = @ + 1,
                                    ![channels[i]].accepted = Append(@, x)]
       ELSE UNCHANGED <<chan, hist>>
    /\ UNCHANGED <<now, ticks, conn, regVars, pump, transport, auxVars>>

\* --------------------------------------------- tokio::sync::Mutex<Session>
\* lock(): the caller gets the mutex at once when it is free, and otherwise
\* queues; the mutex is fair, a release hands it to the longest waiter.
\* `bypass` counts the times the upload thread was given the mutex while the
\* I/O task waited for it, since the I/O task last got it.
Grant(t, w) ==
    [t EXCEPT !.holder = w,
              !.bypass = IF w = "pump" THEN 0
                         ELSE IF w = "upload" /\ Remove(t.waiters, "pump") # t.waiters
                         THEN @ + 1
                         ELSE @]

LockBad(t, w) == Grant(t, w)
Lock(t, w) ==
    IF t.holder = "free" THEN Grant(t, w)
    ELSE [t EXCEPT !.waiters = Append(@, w)]

\* Whether w holds the mutex.
Holds(t, w) == t.holder = w

\* Dropping the guard.
UnlockBad(t) == [t EXCEPT !.holder = "free"]
Unlock(t) ==
    IF t.waiters = <<>> THEN [t EXCEPT !.holder = "free"]
    ELSE Grant([t EXCEPT !.waiters = Tail(@)], Head(t.waiters))

\* A waiter gives up (its task is cancelled while it waits or right after it
\* was handed the mutex).
Abandon(t, w) ==
    IF t.holder = w THEN Unlock(t) ELSE [t EXCEPT !.waiters = Remove(@, w)]

\* ------------------------------------------------------ I/O task (SSH pump)
\* sess_arc.lock().await followed by channel_arc.lock().await: both are taken
\* at once when both are free; otherwise the task waits (for the session
\* mutex, or holding it for the channel mutex).
LockBoth(t) ==
    IF t.holder = "free" /\ t.chHolder = "free"
    THEN [Lock(t, "pump") EXCEPT !.chHolder = "pump"]
    ELSE Lock(t, "pump")

HasBoth(t) == t.holder = "pump" /\ t.chHolder = "pump"

\* Dropping both guards at the end of the block.
UnlockBoth(t) == Unlock([t EXCEPT !.chHolder = "free"])

\* Whether the upload thread of the connection is between its start and its
\* final status event.
UploadRunning(c) == upload[c].pc \notin {"none", "done"}

\* Loop head: the stop flag ends the task; otherwise take the two mutexes.
PumpHead(c) ==
    /\ pump[c].pc = "head"
    /\ IF chan[c].stop_flag
       THEN /\ pump' = [pump EXCEPT ![c].pc = "done"]
            /\ UNCHANGED transport
       ELSE /\ transport' = [transport EXCEPT ![c] = LockBoth(@)]
            /\ pump' = [pump EXCEPT ![c].pc =
                          IF HasBoth(LockBoth(transport[c])) THEN "read" ELSE "lockS"]
    /\ UNCHANGED <<now, ticks, conn, regVars, chan, auxVars, hist>>

\* The end of a wait: holding the session mutex, take the channel mutex.
PumpLockC(c) ==
    /\ pump[c].pc \in {"lockS", "inLockS"}
    /\ transport[c].holder = "pump"
    /\ transport[c].chHolder = "free"
    /\ transport' = [transport EXCEPT ![c].chHolder = "pump"]
    /\ pump' = [pump EXCEPT ![c].pc = IF pump[c].pc = "lockS" THEN "read" ELSE "write"]
    /\ UNCHANGED <<now, ticks, conn, regVars, chan, auxVars, hist>>

\* Results of a read: Ok(n) with n = 0 at end of stream, or an error.
ReadResults == {<<"ok", n>> : n \in ReadSizes \cup {0}}
                   \cup {<<"err", "WouldBlock">>, <<"err", "Other">>}
IsData(r) == r[1] = "ok" /\ r[2] > 0
IsWouldBlock(r) == r[1] = "err" /\ r[2] = "WouldBlock"

\* The initial buffering phase ends at the first check later than the timeout.
WindowExpiredBad(p, t) ==
    p.in_initial_buffering /\ t - p.start > INITIAL_BUFFERING_TIMEOUT_MS * 1000
WindowExpired(p, t) ==
    p.in_initial_buffering /\ t - p.start > INITIAL_BUFFERING_TIMEOUT_MS

\* (size_threshold, time_threshold_ms) of the batching decision
Thresholds(in_initial, seen_first) ==
    IF in_initial /\ ~seen_first
    THEN <<INITIAL_BATCH_SIZE_THRESHOLD, INITIAL_BATCH_TIME_MS>>
    ELSE <<NORMAL_BATCH_SIZE_THRESHOLD, NORMAL_BATCH_TIME_MS>>

ShouldEmitBad(pending, last_emit, t, thr) ==
    pending > 0 /\ (pending > thr[1] /\ t - last_emit > thr[2])
ShouldEmit(pending, last_emit, t, thr) ==
    pending > 0 /\ (pending > thr[1] \/ t - last_emit > thr[2])

\* The replay cache after a threshold emission of `chunk`.
CacheAfterBad(cache, chunk, in_initial) == Append(cache, chunk)
CacheAfter(cache, chunk, in_initial) ==
    IF in_initial THEN Append(cache, chunk) ELSE cache

\* The rest of one iteration, from the match on the read result (with
\* `pending` bytes now pending, `nread` data reads made, the mutexes as in t)
\* back to the head of the loop: the end-of-window check with its flush, the
\* batching decision with its emission (a chunk is emitted as an event and
\* sent on the output queue), then the first try_recv of the input loop, which
\* takes the next queued item and the mutexes to write it.
FinishIteration(c, pending, nread, t) ==
    LET p == pump[c]
        ch == chan[c]
        expired == WindowExpired(p, now)
        in1 == p.in_initial_buffering /\ ~expired
        flush == expired /\ pending > 0
        fchunk == OutputChunk(ch.next_seq, pending, now)
        seq1 == IF flush THEN FetchAdd(ch.next_seq) ELSE ch.next_seq
        pend1 == IF flush THEN 0 ELSE pending
        last1 == IF flush THEN now ELSE p.last_emit
        seen1 == flush \/ p.seen_first_output
        emit == ShouldEmit(pend1, last1, now, Thresholds(in1, seen1))
        chunk == OutputChunk(seq1, pend1, now)
        out == (IF flush THEN <<fchunk>> ELSE <<>>) \o
               (IF emit THEN <<chunk>> ELSE <<>>)
        input == ch.inq # <<>>
    IN /\ pump' = [pump EXCEPT
                     ![c].pc = IF ~input THEN "head"
                               ELSE IF HasBoth(LockBoth(t)) THEN "write"
                               ELSE "inLockS",
                     ![c].cur = IF input THEN Head(ch.inq) ELSE "none",
                     ![c].in_initial_buffering = in1,
                     ![c].pending = IF emit THEN 0 ELSE pend1,
                     ![c].last_emit = IF emit THEN now ELSE last1,
                     ![c].seen_first_output = emit \/ seen1]
       /\ chan' = [chan EXCEPT
                     ![c].next_seq = IF emit THEN FetchAdd(seq1) ELSE seq1,
                     ![c].initial_outputs =
                         IF emit THEN CacheAfter(@, chunk, in1) ELSE @,
                     ![c].outq = @ \o out,
                     ![c].inq = IF input THEN Tail(@) ELSE @]
       /\ hist' = [hist EXCEPT
                     ![c].emitted = @ \o out, ![c].reads = nread,
                     ![c].read_bytes = @ + (pending - p.pending),
                     ![c].dry = IF nread > hist[c].reads THEN FALSE ELSE @,
                     ![c].since = IF p.pending = 0 /\ pending > 0 THEN now ELSE @,
                     ![c].held = /\ ~flush /\ ~emit
                                 /\ \/ @
                                    \/ /\ nread > hist[c].reads
                                       /\ hist[c].dry /\ UploadRunning(c)]
       /\ transport' = [transport EXCEPT ![c] = IF input THEN LockBoth(t) ELSE t]

\* Whether the result of a read is mapped to Some(Err(_)): Ok(0) is a closed
\* connection, an error other than WouldBlock a read error.
IsFatalBad(r) == r[1] = "err" /\ ~IsWouldBlock(r)
IsFatal(r) == (r[1] = "ok" /\ r[2] = 0) \/ (r[1] = "err" /\ ~IsWouldBlock(r))

\* ch.read(&mut buffer) under both mutexes, the guards dropped, then the
\* match on the result: data is appended to the pending output and the
\* iteration goes on; end of stream or an error other than WouldBlock sets
\* the stop flag and ends the task; WouldBlock yields.
PumpRead(c, r) ==
    /\ pump[c].pc = "read"
    /\ IsData(r) => ReadsUpTo(hist, MaxConn) < MaxReads
    /\ CASE IsData(r) ->
              FinishIteration(c, pump[c].pending + r[2], hist[c].reads + 1,
                              UnlockBoth(transport[c]))
         [] IsFatal(r) ->
              /\ transport' = [transport EXCEPT ![c] = UnlockBoth(@)]
              /\ chan' = [chan EXCEPT ![c].stop_flag = TRUE]
              /\ pump' = [pump EXCEPT ![c].pc = "done"]
              /\ UNCHANGED hist
         [] OTHER ->
              /\ transport' = [transport EXCEPT ![c] = UnlockBoth(@)]
              /\ pump' = [pump EXCEPT ![c].pc = "yield"]
              /\ hist' = [hist EXCEPT ![c].dry = UploadRunning(c)]
              /\ UNCHANGED chan
    /\ UNCHANGED <<now, ticks, conn, regVars, auxVars>>

\* The task runs again after tokio::task::yield_now().
PumpYield(c) ==
    /\ pump[c].pc = "yield"
    /\ FinishIteration(c, pump[c].pending, hist[c].reads, transport[c])
    /\ UNCHANGED <<now, ticks, conn, regVars, auxVars>>

\* ch.write_all(input).and_then(flush) under both mutexes (the result is
\* ignored), the guards dropped, then the next try_recv.
PumpWrite(c, ok) ==
    /\ pump[c].pc = "write"
    /\ LET t == UnlockBoth(transport[c])
           input == chan[c].inq # <<>>
       IN /\ transport' = [transport EXCEPT ![c] = IF input THEN LockBoth(t) ELSE t]
          /\ pump' = [pump EXCEPT
                        ![c].pc = IF ~input THEN "head"
                                  ELSE IF HasBoth(LockBoth(t)) THEN "write"
                                  ELSE "inLockS",
                        ![c].cur = IF input THEN Head(chan[c].inq) ELSE "none"]
          /\ chan' = [chan EXCEPT ![c].inq = IF input THEN Tail(@) ELSE @]
    /\ hist' = IF ok THEN [hist EXCEPT ![c].written = Append(@, pump[c].cur)]
               ELSE hist
    /\ UNCHANGED <<now, ticks, conn, regVars, auxVars>>

\* handle.abort(): the task is dropped at an await point (waiting for a mutex
\* or yielding); the guards it holds are dropped with it.
PumpCancel(c) ==
    /\ chan[c].aborted
    /\ pump[c].pc \in {"lockS", "inLockS", "yield"}
    /\ pump' = [pump EXCEPT ![c].pc = "done"]
    /\ transport' = IF pump[c].pc = "yield" THEN transport
                    ELSE [transport EXCEPT ![c] = Abandon(@, "pump")]
    /\ UNCHANGED <<now, ticks, conn, regVars, chan, auxVars, hist>>

\* ------------------------------------------------------ monitoring task
\* Loop head: the stop flag ends the task; otherwise start_time is taken,
\* then sess_arc.lock().await, and with the mutex fetch_server_status starts
\* (a short-lived channel on the session, exec, reads with yields in between).
ProberHead(c) ==
    /\ prober[c].pc = "head"
    /\ chan[c].stop_flag \/ Len(prober[c].statuses) < MaxTicks
    /\ IF chan[c].stop_flag
       THEN /\ prober' = [prober EXCEPT ![c].pc = "done"]
            /\ UNCHANGED <<transport, hist>>
       ELSE /\ transport' = [transport EXCEPT ![c] = Lock(@, "prober")]
            /\ prober' = [prober EXCEPT ![c].pc =
                            IF Holds(Lock(transport[c], "prober"), "prober")
                            THEN "fetch" ELSE "lock",
                            ![c].start_time = now,
                            ![c].retries = 0]
            /\ hist' = [hist EXCEPT ![c].exec_at =
                            IF Holds(Lock(transport[c], "prober"), "prober")
                            THEN now ELSE @]
    /\ UNCHANGED <<now, ticks, conn, regVars, chan, pump, upload, probe, resize>>

\* The end of a wait for the mutex.
ProberAcquire(c) ==
    /\ prober[c].pc = "lock"
    /\ transport[c].holder = "prober"
    /\ prober' = [prober EXCEPT ![c].pc = "fetch"]
    /\ hist' = [hist EXCEPT ![c].exec_at = now]
    /\ UNCHANGED <<now, ticks, conn, regVars, chan, pump, transport, upload, probe,
                   resize>>

\* The session mutex across the yield_now().await inside
\* fetch_server_status: the guard `sess` lives until the end of the block.
AcrossYieldBad(t) == Unlock(t)
AcrossYield(t) == t

\* channel.exec returns the would-block code (Session(-37)), or a read of the
\* response WouldBlock: yield_now().await, then the call is made again.
ProberRetry(c) ==
    /\ prober[c].pc = "fetch"
    /\ prober[c].retries < MaxRetries
    /\ prober' = [prober EXCEPT ![c].retries = @ + 1]
    /\ transport' = [transport EXCEPT ![c] = AcrossYield(@)]
    /\ UNCHANGED <<now, ticks, conn, regVars, chan, pump, upload, probe,
                   resize, hist>>

\* Results of fetch_server_status: Ok with the raw readings of the server's
\* counters, or the error of the step that failed (opening the exec channel,
\* the exec, a read, fewer than 4 non-empty lines of output).
Readings == {"r1", "r2", "r3"}
FetchErrors == {"channel", "exec", "read", "lines"}
FetchResults == {<<"ok", x>> : x \in Readings} \cup {<<"err", e>> : e \in FetchErrors}

\* The error fetch_server_status returns for a failing step.
FetchError(e) == IF e \in {"channel", "exec"} THEN "ChannelError" ELSE "OperationFailed"

\* The counters a reading stands for: the total and idle CPU time of
\* /proc/stat and the bytes received and sent of /proc/net/dev.  After r1 the
\* counters of r2 have advanced; r3 has the total of r2, more idle time than
\* total time since r1, and network counters that started again.
RawReadings ==
    [r1 |-> [cpu_total |-> 1000, cpu_idle |-> 800, rx |-> 5000, tx |-> 3000],
     r2 |-> [cpu_total |-> 1400, cpu_idle |-> 900, rx |-> 9000, tx |-> 3300],
     r3 |-> [cpu_total |-> 1400, cpu_idle |-> 1300, rx |-> 200, tx |-> 100]]
Raw(x) == RawReadings[x]

\* u64::saturating_sub
SaturatingSub(a, b) == IF a >= b THEN a - b ELSE 0

\* f64::clamp(0.0, 100.0)
Clamp(v) == IF v < 0 THEN 0 ELSE IF v > 100 THEN 100 ELSE v

\* cpu_usage of fetch_server_status, in whole per cent (rounded down): from
\* the differences to the last CPU reading, 0 when there is none or when the
\* total did not advance.
CpuUsage(x, last_cpu) ==
    IF last_cpu = "none" THEN 0
    ELSE LET diff_total == SaturatingSub(Raw(x).cpu_total, Raw(last_cpu).cpu_total)
             diff_idle == SaturatingSub(Raw(x).cpu_idle, Raw(last_cpu).cpu_idle)
         IN IF diff_total > 0
            THEN Clamp((100 * (diff_total - diff_idle)) \div diff_total)
            ELSE 0

\* rx_diff / tx_diff of the monitoring task
NetDiffBad(current, prev) == current - prev
NetDiff(current, prev) == IF current >= prev THEN current - prev ELSE 0

\* net_down / net_up of an emitted status, in bytes per second (rounded
\* down): 0 without a last network reading; the difference to it over the
\* time since it was taken (ms) when that is positive; else the raw counter
\* fetch_server_status put there.
NetSpeed(current, last_net, prev, duration) ==
    IF last_net = "none" THEN 0
    ELSE IF duration > 0 THEN (NetDiff(current, prev) * 1000) \div duration
    ELSE current

\* The status emitted for a reading x that was fetched at time t by a tick
\* that began at start_time: the CPU usage from the last CPU reading, the
\* network speeds from the last network reading and its time, the latency.
ServerStatus(x, last_cpu, last_net, prev_time, start_time, t) ==
    [raw |-> x, cpu_from |-> last_cpu, net_from |-> last_net,
     cpu_usage |-> CpuUsage(x, last_cpu),
     net_down |-> NetSpeed(Raw(x).rx, last_net,
                           IF last_net = "none" THEN 0 ELSE Raw(last_net).rx,
                           t - prev_time),
     net_up |-> NetSpeed(Raw(x).tx, last_net,
                         IF last_net = "none" THEN 0 ELSE Raw(last_net).tx,
                         t - prev_time),
     latency |-> t - start_time]

\* last_cpu_read / last_net_read after a fetch with result `res`: the locals
\* are assigned inside `if let Ok(..) = status_res`.
LastReadBad(res, last) == IF res[1] = "ok" THEN res[2] ELSE "none"
LastRead(res, last) == IF res[1] = "ok" THEN res[2] ELSE last

\* fetch_server_status returns `res`, the guard is dropped; when Ok the
\* readings are kept and the status is emitted; then the task sleeps.
ProberFetch(c, res) ==
    /\ prober[c].pc = "fetch"
    /\ transport' = [transport EXCEPT ![c] = Unlock(@)]
    /\ prober' = [prober EXCEPT
                    ![c].pc = "sleep",
                    ![c].res = IF res[1] = "ok" THEN "ok" ELSE FetchError(res[2]),
                    ![c].last_cpu_read = LastRead(res, @),
                    ![c].last_net_read = LastRead(res, @),
                    ![c].last_net_time = IF res[1] = "ok" THEN now ELSE @,
                    ![c].asleep = now,
                    ![c].statuses =
                        IF res[1] = "ok"
                        THEN Append(@, ServerStatus(res[2], prober[c].last_cpu_read,
                                                    prober[c].last_net_read,
                                                    prober[c].last_net_time,
                                                    prober[c].start_time, now))
                        ELSE @]
    /\ UNCHANGED <<now, ticks, conn, regVars, chan, pump, upload, probe, resize, hist>>

\* The sleep of 1500 ms is over.
ProberWake(c) ==
    /\ prober[c].pc = "sleep"
    /\ prober' = [prober EXCEPT ![c].pc = "head"]
    /\ UNCHANGED <<now, ticks, conn, regVars, chan, pump, transport, upload, probe,
                   resize, hist>>

\* status_handle.abort(): the task is dropped at an await point (waiting for
\* the mutex, inside fetch_server_status, or asleep) with the guard it holds.
ProberCancel(c) ==
    /\ chan[c].aborted
    /\ prober[c].pc \in {"lock", "fetch", "sleep"}
    /\ prober' = [prober EXCEPT ![c].pc = "done"]
    /\ transport' = IF prober[c].pc = "sleep" THEN transport
                    ELSE [transport EXCEPT ![c] = Abandon(@, "prober")]
    /\ UNCHANGED <<now, ticks, conn, regVars, chan, pump, upload, probe, resize, hist>>

\* ---------------------------------------------------------- upload thread
\* The value of the session's blocking flag once a chunk or a probe has ended
\* with result `res`: set_blocking(false) is called on every path.
BlockingAfterBad(res) == res # "ok"
BlockingAfter(res) == FALSE

\* blocking_lock() followed by set_blocking(true): the flag is set once the
\* caller has the mutex.
LockBlocking(t, w) ==
    [Lock(t, w) EXCEPT !.blocking = IF Holds(Lock(t, w), w) THEN TRUE ELSE @]

\* The result of upload_file_sftp for an id: the lookup in channels.
UploadResultBad(i) == "ok"
UploadResult(i) == IF channels[i] = NoConn THEN "SessionNotFound" ELSE "ok"

\* upload_file_sftp(id, ..) on a registered id: the thread is spawned (with
\* its own reference to the session mutex) and the call returns Ok.
UploadStart(i) ==
    /\ channels[i] # NoConn
    /\ upload[channels[i]].pc = "none"
    /\ upload' = [upload EXCEPT ![channels[i]].pc = "local",
                                ![channels[i]].ret = UploadResult(i)]
    /\ UNCHANGED <<now, ticks, conn, regVars, chan, pump, transport, prober, probe,
                   resize, hist>>

\* upload_file_sftp(id, ..) on an id with no entry in channels: the call
\* returns the error of the lookup.
UploadNotFound(i) ==
    /\ channels[i] = NoConn
    /\ disc' = [disc EXCEPT ![i].upret = UploadResult(i)]
    /\ UNCHANGED <<now, ticks, conn, sessions, channels, terminals, sessionsW,
                   chan, pump, transport, auxVars, hist>>

\* The size of the buffer the local file is read into (512 KiB), in units of
\* 256 KiB; a read returns a full buffer ("data") or less ("part").
ChunkUnits == 2
ReadUnits(r) == IF r = "data" THEN ChunkUnits ELSE 1

\* The n units of the local file that follow its first `off` units (a unit is
\* represented by its position in the file).
LocalData(off, n) == [k \in 1..n |-> off + k]

\* The `upload-progress` events.
Uploading(bytes) == [status |-> "uploading", bytes |-> bytes]
Success == [status |-> "success", progress |-> 100]
Failure(msg) == [status |-> "error", error |-> msg]

\* The thread opens the local file (first time) and reads the next chunk from
\* it: an error ends the upload with the error status; n = 0 ends it with
\* the success status; otherwise blocking_lock() on the session mutex and,
\* with the mutex, set_blocking(true) and the start of the SFTP transfer.
UploadLocal(c, r) ==
    /\ upload[c].pc = "local"
    /\ r \in {"data", "part"} => upload[c].written < MaxChunks
    /\ CASE r \in {"data", "part"} ->
              /\ transport' = [transport EXCEPT ![c] = LockBlocking(@, "upload")]
              /\ upload' = [upload EXCEPT
                              ![c].pc =
                                  IF Holds(Lock(transport[c], "upload"), "upload")
                                  THEN "chunk" ELSE "lock",
                              ![c].n = ReadUnits(r)]
         [] r = "eof" ->
              /\ upload' = [upload EXCEPT ![c].pc = "done", ![c].res = "success",
                                           ![c].events = Append(@, Success)]
              /\ UNCHANGED transport
         [] OTHER ->
              /\ upload' = [upload EXCEPT ![c].pc = "done", ![c].res = "error",
                                           ![c].err = "local",
                                           ![c].events = Append(@, Failure("local"))]
              /\ UNCHANGED transport
    /\ UNCHANGED <<now, ticks, conn, regVars, chan, pump, prober, probe, resize, hist>>

\* The end of a wait for the mutex: set_blocking(true), the transfer starts.
UploadAcquire(c) ==
    /\ upload[c].pc = "lock"
    /\ transport[c].holder = "upload"
    /\ transport' = [transport EXCEPT ![c].blocking = TRUE]
    /\ upload' = [upload EXCEPT ![c].pc = "chunk"]
    /\ UNCHANGED <<now, ticks, conn, regVars, chan, pump, prober, probe, resize, hist>>

\* The offset a chunk is written at: the first chunk goes to the start of the
\* created or truncated file, a later one to where seek(total_written) leads.
SeekOffset(first, total_written) == IF first THEN 0 ELSE total_written

\* The remote file after open_mode (truncating on the first chunk), the seek
\* and write_all of `data`.
WriteAt(f, off, data) ==
    [k \in 1..(IF Len(f) > off + Len(data) THEN Len(f) ELSE off + Len(data)) |->
        IF k > off /\ k <= off + Len(data) THEN data[k - off]
        ELSE IF k <= Len(f) THEN f[k] ELSE 0]

RemoteAfter(u) ==
    [st |-> "written",
     data |-> WriteAt(IF u.first THEN <<>> ELSE u.remote.data,
                      SeekOffset(u.first, u.bytes), LocalData(u.bytes, u.n))]

\* Where the thread goes after a chunk that ended with `res`: chunk_res? ends
\* the closure on an error.
AfterChunkBad(res) == "sleep"
AfterChunk(res) == IF res = "ok" THEN "sleep" ELSE "done"

\* The chunk's transfer ends with `res`; set_blocking(false); the guard is
\* dropped; an error ends the upload with the error status (the remote file
\* is then in no particular state), otherwise the progress event is emitted
\* and the thread sleeps 5 ms.
UploadChunk(c, res) ==
    /\ upload[c].pc = "chunk"
    /\ transport' = [transport EXCEPT
                       ![c] = Unlock([@ EXCEPT !.blocking = BlockingAfter(res)])]
    /\ upload' = [upload EXCEPT
                    ![c].pc = AfterChunk(res),
                    ![c].res = IF res = "ok" THEN "uploading" ELSE "error",
                    ![c].err = IF res = "ok" THEN @ ELSE "sftp",
                    ![c].written = IF res = "ok" THEN @ + 1 ELSE @,
                    ![c].first = IF res = "ok" THEN FALSE ELSE @,
                    ![c].bytes = IF res = "ok" THEN @ + upload[c].n ELSE @,
                    ![c].n = 0,
                    ![c].remote = IF res = "ok" THEN RemoteAfter(upload[c])
                                  ELSE RemoteUnspecified,
                    ![c].events =
                        IF res = "ok"
                        THEN Append(@, Uploading(upload[c].bytes + upload[c].n))
                        ELSE Append(@, Failure("sftp"))]
    /\ UNCHANGED <<now, ticks, conn, regVars, chan, pump, prober, probe, resize, hist>>

\* The pause after a chunk is over.
UploadWake(c) ==
    /\ upload[c].pc = "sleep"
    /\ upload' = [upload EXCEPT ![c].pc = "local"]
    /\ UNCHANGED <<now, ticks, conn, regVars, chan, pump, transport, prober, probe,
                   resize, hist>>

\* ------------------------------------------------------ probe_remote_path
\* probe_remote_path(id): the lookup of the id in channels, then, on a
\* blocking thread, blocking_lock() on the session mutex and, with the mutex,
\* set_blocking(true) and the start of the probe.
ProbeStart(i) ==
    /\ channels[i] # NoConn
    /\ probe[channels[i]].pc = "none"
    /\ transport' = [transport EXCEPT ![channels[i]] = LockBlocking(@, "probe")]
    /\ probe' = [probe EXCEPT ![channels[i]].pc =
                    IF Holds(Lock(transport[channels[i]], "probe"), "probe")
                    THEN "exec" ELSE "lock"]
    /\ UNCHANGED <<now, ticks, conn, regVars, chan, pump, prober, upload, resize, hist>>

\* The end of a wait for the mutex: set_blocking(true), the probe starts.
ProbeAcquire(c) ==
    /\ probe[c].pc = "lock"
    /\ transport[c].holder = "probe"
    /\ transport' = [transport EXCEPT ![c].blocking = TRUE]
    /\ probe' = [probe EXCEPT ![c].pc = "exec"]
    /\ UNCHANGED <<now, ticks, conn, regVars, chan, pump, prober, upload, resize, hist>>

\* The probe ends with `res` ("ok" or the error of the failing step);
\* set_blocking(false); the guard is dropped; the call returns.
ProbeExec(c, res) ==
    /\ probe[c].pc = "exec"
    /\ transport' = [transport EXCEPT
                       ![c] = Unlock([@ EXCEPT !.blocking = BlockingAfter(res)])]
    /\ probe' = [probe EXCEPT ![c].pc = "done", ![c].res = res]
    /\ UNCHANGED <<now, ticks, conn, regVars, chan, pump, prober, upload, resize, hist>>

\* ----------------------------------------------------------- resize task
\* An `ssh-resize-<id>` event on a connection whose stop flag is clear: a
\* task is spawned that takes the channel mutex (and not the session mutex).
ResizeEvent(c) ==
    /\ conn[c].listeners /\ conn[c].kind = "ssh"
    /\ ~chan[c].stop_flag
    /\ resize[c].pc = "none"
    /\ resize[c].issued < MaxInputs
    /\ resize' = [resize EXCEPT ![c].pc = "lock"]
    /\ UNCHANGED <<now, ticks, conn, regVars, chan, pump, transport, prober, upload,
                   probe, hist>>

\* channel_arc.lock().await succeeds.
ResizeAcquire(c) ==
    /\ resize[c].pc = "lock"
    /\ transport[c].chHolder = "free"
    /\ transport' = [transport EXCEPT ![c].chHolder = "resize"]
    /\ resize' = [resize EXCEPT ![c].pc = "resize"]
    /\ UNCHANGED <<now, ticks, conn, regVars, chan, pump, prober, upload, probe, hist>>

\* request_pty_size, then the guard is dropped and the task ends.
ResizeDone(c) ==
    /\ resize[c].pc = "resize"
    /\ transport' = [transport EXCEPT ![c].chHolder = "free"]
    /\ resize' = [resize EXCEPT ![c].pc = "none", ![c].issued = @ + 1]
    /\ UNCHANGED <<now, ticks, conn, regVars, chan, pump, prober, upload, probe, hist>>

\* An `ssh-resize-<id>` event on a local connection: the closure locks the
\* PTY master and resizes it.
LocalResize(c) ==
    /\ conn[c].listeners /\ conn[c].kind = "local"
    /\ resize[c].issued < MaxInputs
    /\ resize' = [resize EXCEPT ![c].issued = @ + 1]
    /\ UNCHANGED <<now, ticks, conn, regVars, chan, pump, transport, prober, upload,
                   probe, hist>>

\* ------------------------------------------------ local PTY tasks
\* Output task, loop head: the stop flag ends the loop; after the loop the
\* task sets the stop flag.
LocalHead(c) ==
    /\ pump[c].pc = "lhead"
    /\ IF chan[c].stop_flag
       THEN pump' = [pump EXCEPT ![c].pc = "done"]
       ELSE pump' = [pump EXCEPT ![c].pc = "lread"]
    /\ UNCHANGED <<now, ticks, conn, regVars, chan, transport, auxVars, hist>>

\* Output task: the blocking reader.read; n bytes are emitted at once as one
\* chunk, EOF or an error ends the loop.
LocalRead(c, r) ==
    /\ pump[c].pc = "lread"
    /\ ~IsWouldBlock(r)
    /\ IsData(r) => ReadsUpTo(hist, MaxConn) < MaxReads
    /\ IF IsData(r)
       THEN /\ chan' = [chan EXCEPT ![c].next_seq = FetchAdd(@)]
            /\ hist' = [hist EXCEPT ![c].reads = @ + 1,
                          ![c].read_bytes = @ + r[2],
                          ![c].emitted = Append(@, OutputChunk(chan[c].next_seq, r[2], now))]
            /\ pump' = [pump EXCEPT ![c].pc = "lhead"]
       ELSE /\ chan' = [chan EXCEPT ![c].stop_flag = TRUE]
            /\ pump' = [pump EXCEPT ![c].pc = "done"]
            /\ UNCHANGED hist
    /\ UNCHANGED <<now, ticks, conn, regVars, transport, auxVars>>

\* Input task: input_receiver.recv().await, then the stop-flag check, then
\* the write to the PTY.
LocalInput(c) ==
    /\ pump[c].inpc = "recv"
    /\ chan[c].inq # <<>>
    /\ chan' = [chan EXCEPT ![c].inq = Tail(@)]
    /\ IF chan[c].stop_flag
       THEN /\ pump' = [pump EXCEPT ![c].inpc = "done"]
            /\ UNCHANGED hist
       ELSE /\ hist' = [hist EXCEPT ![c].written = Append(@, Head(chan[c].inq))]
            /\ UNCHANGED pump
    /\ UNCHANGED <<now, ticks, conn, regVars, transport, auxVars>>

\* ------------------------------------------------------- listeners
\* Whether the input listener of a connection enqueues an event's payload.
ListenerAccepts(kind, stop) == kind = "local" \/ ~stop

\* Whether the receiving end of a connection's input queue still exists: it
\* is owned by the I/O task (SSH) or by the input task (local).
ReceiverAlive(c) ==
    IF conn[c].kind = "local" THEN pump[c].inpc # "done" ELSE pump[c].pc # "done"

\* Whether an `ssh-input-<id>` event puts its payload on the queue of c.
Enqueues(c, i) ==
    /\ conn[c].listeners /\ conn[c].id = i
    /\ ListenerAccepts(conn[c].kind, chan[c].stop_flag)
    /\ ReceiverAlive(c)

\* An `ssh-input-<id>` event: every listener registered under the id runs.
InputEvent(i, x) ==
    /\ \E c \in Conns : conn[c].listeners /\ conn[c].id = i
    /\ \A c \in Conns : conn[c].listeners /\ conn[c].id = i => hist[c].sent < MaxInputs
    /\ chan' = [c \in Conns |->
                 IF Enqueues(c, i)
                 THEN [chan[c] EXCEPT !.inq = Enqueue(@, x)]
                 ELSE chan[c]]
    /\ hist' = [c \in Conns |->
                 IF conn[c].listeners /\ conn[c].id = i
                 THEN [hist[c] EXCEPT !.sent = @ + 1,
                                      !.accepted = IF Enqueues(c, i)
                                                   THEN Append(@, x) ELSE @]
                 ELSE hist[c]]
    /\ UNCHANGED <<now, ticks, conn, regVars, pump, transport, auxVars>>

\* ------------------------------------------------- owners of the transport
\* Who holds a reference (an Arc clone, or the value itself) that keeps the
\* transport of a connection alive.  SSH: the session mutex is held by the
\* registry entry, the I/O task, the monitoring task, an upload thread and a
\* probe; the channel mutex (the channel keeps its session alive) by the I/O
\* task, a resize task and the closure of the resize listener, which is never
\* unregistered.  Local: the reader is owned by the output task, the writer
\* by the input task, the PTY master by the closure of the resize listener.
TransportRefs(c) ==
    {w \in {"entry", "io_task", "monitoring_task", "upload_thread", "probe",
            "resize_task", "resize_listener", "input_task"} :
        \/ w = "entry" /\ conn[c].kind = "ssh" /\ channels[conn[c].id] = c
        \/ w = "io_task" /\ pump[c].pc \notin {"none", "done"}
        \/ w = "monitoring_task" /\ prober[c].pc \notin {"none", "done"}
        \/ w = "upload_thread" /\ upload[c].pc \notin {"none", "done"}
        \/ w = "probe" /\ probe[c].pc \notin {"none", "done"}
        \/ w = "resize_task" /\ resize[c].pc # "none"
        \/ w = "resize_listener" /\ conn[c].listeners
        \/ w = "input_task" /\ pump[c].inpc \notin {"none", "done"}}

\* ------------------------------------------------------- output readers
\* What get_session_output leaves on the queue it has read.
AfterDrainBad(q) == q
AfterDrain(q) == <<>>

\* get_ssh_output(id) on a registered id: under the receiver mutex, try_recv
\* until the queue is empty; the chunks received are the result.
GetOutput(i) ==
    /\ channels[i] # NoConn
    /\ chan[channels[i]].outq # <<>>
    /\ hist' = [hist EXCEPT ![channels[i]].drained = @ \o chan[channels[i]].outq]
    /\ chan' = [chan EXCEPT ![channels[i]].outq = AfterDrain(@)]
    /\ UNCHANGED <<now, ticks, conn, regVars, pump, transport, auxVars>>

\* The result of get_ssh_output / get_buffered_ssh_output for an id.
OutputResult(i) ==
    IF channels[i] = NoConn THEN "SessionNotFound" ELSE chan[channels[i]].outq

BufferedResult(i) ==
    IF channels[i] = NoConn THEN "SessionNotFound"
    ELSE chan[channels[i]].initial_outputs

\* What get_buffered_ssh_output leaves in the cache it has cloned.
AfterBufferedBad(cache) == <<>>
AfterBuffered(cache) == cache

\* get_buffered_ssh_output(id) on a registered id: clone the cache.
GetBuffered(i) ==
    /\ channels[i] # NoConn
    /\ hist' = [hist EXCEPT ![channels[i]].replay = chan[channels[i]].initial_outputs]
    /\ chan' = [chan EXCEPT ![channels[i]].initial_outputs = AfterBuffered(@)]
    /\ UNCHANGED <<now, ticks, conn, regVars, pump, transport, auxVars>>

\* ------------------------------------------------------------------ clock
\* Time passes while some task exists (the tasks read only differences of
\* the clock).
Tick(d) ==
    /\ \E c \in Conns : pump[c].pc # "none"
    /\ ticks < MaxTicks
    /\ now' = now + d
    /\ ticks' = ticks + 1
    /\ UNCHANGED <<conn, regVars, chan, pump, transport, auxVars, hist>>

\* ------------------------------------------------ I/O specification
\* One connection (SSH or local), its pump, the clock and the readers.
IoConn == CHOOSE c \in Conns : \A d \in Conns : c <= d
IoId == "s1"

NextIo ==
    \/ ConnectSsh(IoConn, IoId, "ok")
    \/ ConnectSshRegSessions(IoConn)
    \/ ConnectSshRegChannels(IoConn)
    \/ ConnectLocal(IoConn, IoId, "ok")
    \/ ConnectLocalRegister(IoConn)
    \/ PumpHead(IoConn)
    \/ \E r \in ReadResults : PumpRead(IoConn, r)
    \/ PumpYield(IoConn)
    \/ LocalHead(IoConn)
    \/ \E r \in ReadResults : LocalRead(IoConn, r)
    \/ GetOutput(IoId)
    \/ GetBuffered(IoId)
    \/ \E d \in TickSteps : Tick(d)

SpecIo == Init /\ [][NextIo]_vars

\* ------------------------------------------------ registry specification
\* Every connect and disconnect call on every id, with the pumps of the
\* connections they create (the shells are silent: a read finds the end of
\* the stream).
RegIds == {"s1"}
RegReads == {<<"ok", 0>>}

NextReg ==
    \/ \E c \in Conns, i \in RegIds, o \in {"ok"} \cup SshFailSteps :
           ConnectSsh(c, i, o)
    \/ \E c \in Conns : ConnectSshRegSessions(c)
    \/ \E c \in Conns : ConnectSshRegChannels(c)
    \/ \E c \in Conns, i \in RegIds, o \in {"ok"} \cup LocalFailSteps :
           ConnectLocal(c, i, o)
    \/ \E c \in Conns : ConnectLocalRegister(c)
    \/ \E i \in RegIds : DisconnectChannels(i)
    \/ \E i \in RegIds : DisconnectSessions(i)
    \/ \E i \in RegIds : DisconnectLocal(i)
    \/ \E c \in Conns : PumpHead(c)
    \/ \E c \in Conns, r \in RegReads : PumpRead(c, r)
    \/ \E c \in Conns : LocalHead(c)
    \/ \E c \in Conns, r \in RegReads : LocalRead(c, r)

SpecReg == Init /\ [][NextReg]_vars

\* The registry specification with pumps that also read data (and emit it on
\* the size threshold).
DupReads == {<<"ok", 1100>>}

NextDup ==
    \/ NextReg
    \/ \E c \in Conns, r \in DupReads : PumpRead(c, r)
    \/ \E c \in Conns, r \in DupReads : LocalRead(c, r)

SpecDup == Init /\ [][NextDup]_vars

\* ------------------------------------------------ transport specification
\* One SSH connection with everything that uses its session: the I/O task,
\* the monitoring task, an upload thread and a probe_remote_path call, with
\* inputs sent and the session, once registered, disconnected at any point
\* (the shell is silent: reads find no data, or the end of the stream).
LockReads == {<<"err", "WouldBlock">>, <<"ok", 0>>}
LockFetches == {<<"err", "exec">>}
LocalResults == {"data", "eof", "err"}
ChunkResults == {"ok", "OperationFailed"}
ProbeResults == {"ok", "ChannelError", "OperationFailed"}

NextLock ==
    \/ ConnectSsh(IoConn, IoId, "ok")
    \/ ConnectSshRegSessions(IoConn)
    \/ ConnectSshRegChannels(IoConn)
    \/ channels[IoId] # NoConn /\ DisconnectChannels(IoId)
    \/ DisconnectSessions(IoId)
    \/ SendInput(IoId, "a")
    \/ PumpHead(IoConn)
    \/ PumpLockC(IoConn)
    \/ \E r \in LockReads : PumpRead(IoConn, r)
    \/ PumpYield(IoConn)
    \/ PumpWrite(IoConn, TRUE)
    \/ PumpCancel(IoConn)
    \/ ProberHead(IoConn)
    \/ ProberAcquire(IoConn)
    \/ \E res \in LockFetches : ProberFetch(IoConn, res)
    \/ ProberWake(IoConn)
    \/ ProberCancel(IoConn)
    \/ UploadStart(IoId)
    \/ \E r \in LocalResults : UploadLocal(IoConn, r)
    \/ UploadAcquire(IoConn)
    \/ \E res \in ChunkResults : UploadChunk(IoConn, res)
    \/ UploadWake(IoConn)
    \/ ProbeStart(IoId)
    \/ ProbeAcquire(IoConn)
    \/ \E res \in ProbeResults : ProbeExec(IoConn, res)

SpecLock == Init /\ [][NextLock]_vars

\* --------------------------------------------------- upload specification
\* One SSH connection whose shell produces output while a file is uploaded,
\* with the monitoring task and a probe_remote_path call as further users of
\* the session (the upload is short against the batching intervals: the
\* clock stands still, chunks are emitted on the size thresholds).
UpReads == {<<"ok", 150>>, <<"err", "WouldBlock">>}
UpFetches == {<<"ok", "r1">>}

NextUp ==
    \/ ConnectSsh(IoConn, IoId, "ok")
    \/ ConnectSshRegSessions(IoConn)
    \/ ConnectSshRegChannels(IoConn)
    \/ PumpHead(IoConn)
    \/ PumpLockC(IoConn)
    \/ \E r \in UpReads : PumpRead(IoConn, r)
    \/ PumpYield(IoConn)
    \/ ProberHead(IoConn)
    \/ ProberAcquire(IoConn)
    \/ \E res \in UpFetches : ProberFetch(IoConn, res)
    \/ ProberWake(IoConn)
    \/ UploadStart(IoId)
    \/ \E r \in LocalResults : UploadLocal(IoConn, r)
    \/ UploadAcquire(IoConn)
    \/ \E res \in ChunkResults : UploadChunk(IoConn, res)
    \/ UploadWake(IoConn)
    \/ ProbeStart(IoId)
    \/ ProbeAcquire(IoConn)
    \/ \E res \in ProbeResults : ProbeExec(IoConn, res)

SpecUp == Init /\ [][NextUp]_vars

\* Whoever has the session mutex goes on: the runtime keeps scheduling the
\* monitoring task, and the upload and probe threads run on their own.
FairUp ==
    /\ WF_vars(ProberAcquire(IoConn))
    /\ WF_vars(\E res \in UpFetches : ProberFetch(IoConn, res))
    /\ WF_vars(UploadAcquire(IoConn))
    /\ WF_vars(\E res \in ChunkResults : UploadChunk(IoConn, res))
    /\ WF_vars(ProbeAcquire(IoConn))
    /\ WF_vars(\E res \in ProbeResults : ProbeExec(IoConn, res))

SpecUpFair == SpecUp /\ FairUp

\* ------------------------------------------------ file upload specification
\* One SSH connection and upload_file_sftp calls on its id: the upload thread
\* with the content it transfers, the I/O task as the other user of the
\* session, and a disconnect at any point (the shell is silent).
FileResults == LocalResults \cup {"part"}
InReads == {<<"err", "WouldBlock">>}

NextFile ==
    \/ ConnectSsh(IoConn, IoId, "ok")
    \/ ConnectSshRegSessions(IoConn)
    \/ ConnectSshRegChannels(IoConn)
    \/ DisconnectChannels(IoId)
    \/ DisconnectSessions(IoId)
    \/ UploadNotFound(IoId)
    \/ UploadStart(IoId)
    \/ \E r \in FileResults : UploadLocal(IoConn, r)
    \/ UploadAcquire(IoConn)
    \/ \E res \in ChunkResults : UploadChunk(IoConn, res)
    \/ UploadWake(IoConn)
    \/ PumpHead(IoConn)
    \/ PumpLockC(IoConn)
    \/ \E r \in InReads : PumpRead(IoConn, r)
    \/ PumpYield(IoConn)
    \/ PumpCancel(IoConn)

SpecFile == Init /\ [][NextFile]_vars

\* ------------------------------------------------- listener specification
\* One connection (SSH or local) with its input and resize listeners, its
\* tasks and a disconnect at any point (the shell is silent, or ends).
ListenReads == {<<"err", "WouldBlock">>, <<"ok", 0>>}

NextListen ==
    \/ ConnectSsh(IoConn, IoId, "ok")
    \/ ConnectSshRegSessions(IoConn)
    \/ ConnectSshRegChannels(IoConn)
    \/ ConnectLocal(IoConn, IoId, "ok")
    \/ ConnectLocalRegister(IoConn)
    \/ DisconnectChannels(IoId)
    \/ DisconnectSessions(IoId)
    \/ DisconnectLocal(IoId)
    \/ \E x \in Inputs : InputEvent(IoId, x)
    \/ ResizeEvent(IoConn)
    \/ ResizeAcquire(IoConn)
    \/ ResizeDone(IoConn)
    \/ LocalResize(IoConn)
    \/ PumpHead(IoConn)
    \/ PumpLockC(IoConn)
    \/ \E r \in ListenReads : PumpRead(IoConn, r)
    \/ PumpYield(IoConn)
    \/ PumpWrite(IoConn, TRUE)
    \/ PumpCancel(IoConn)
    \/ LocalHead(IoConn)
    \/ \E r \in RegReads : LocalRead(IoConn, r)
    \/ LocalInput(IoConn)

SpecListen == Init /\ [][NextListen]_vars

\* ------------------------------------------- disconnect_all specification
\* connect_ssh, disconnect_ssh and disconnect_all calls on every id (the
\* tasks of the connections play no part in the registry and are left out).
NextAll ==
    \/ \E c \in Conns, i \in SessionIds : ConnectSsh(c, i, "ok")
    \/ \E c \in Conns : ConnectSshRegSessions(c)
    \/ \E c \in Conns : ConnectSshRegChannels(c)
    \/ \E i \in SessionIds : DisconnectChannels(i)
    \/ \E i \in SessionIds : DisconnectSessions(i)
    \/ DisconnectAllSnapshot
    \/ DisconnectAllReturn

SpecAll == Init /\ [][NextAll]_vars

\* The main thread goes on with a disconnect_all call in flight, and a
\* connect_ssh call that holds the sessions write lock goes on to release it.
AllStep ==
    \/ AllInFlight /\ \E i \in SessionIds : DisconnectChannels(i) \/ DisconnectSessions(i)
    \/ DisconnectAllReturn

FairAll ==
    /\ WF_vars(AllStep)
    /\ WF_vars(\E c \in Conns : ConnectSshRegChannels(c))

SpecAllFair == SpecAll /\ FairAll

\* ---------------------------------------------------- input specification
\* One connection (SSH with its monitoring task, or local) that receives
\* inputs through send_ssh_input and through `ssh-input-<id>` events, writes
\* them to its shell (a write may fail) and may be disconnected at any point
\* (the shell is silent).
NextIn ==
    \/ ConnectSsh(IoConn, IoId, "ok")
    \/ ConnectSshRegSessions(IoConn)
    \/ ConnectSshRegChannels(IoConn)
    \/ ConnectLocal(IoConn, IoId, "ok")
    \/ ConnectLocalRegister(IoConn)
    \/ DisconnectChannels(IoId)
    \/ DisconnectSessions(IoId)
    \/ DisconnectLocal(IoId)
    \/ \E x \in Inputs : SendInput(IoId, x)
    \/ \E x \in Inputs : InputEvent(IoId, x)
    \/ PumpHead(IoConn)
    \/ PumpLockC(IoConn)
    \/ \E r \in InReads : PumpRead(IoConn, r)
    \/ PumpYield(IoConn)
    \/ \E ok \in BOOLEAN : PumpWrite(IoConn, ok)
    \/ PumpCancel(IoConn)
    \/ LocalHead(IoConn)
    \/ LocalInput(IoConn)
    \/ ProberHead(IoConn)
    \/ ProberAcquire(IoConn)
    \/ \E res \in LockFetches : ProberFetch(IoConn, res)
    \/ ProberWake(IoConn)
    \/ ProberCancel(IoConn)

SpecIn == Init /\ [][NextIn]_vars

\* ----------------------------------------------------- pump specification
\* One SSH connection and its I/O task in full: reads of every kind, the
\* clock in steps that separate the batching intervals, and an input sent
\* and written.
BatchSteps == {10, 30, 110, 2000}

NextPump ==
    \/ ConnectSsh(IoConn, IoId, "ok")
    \/ ConnectSshRegSessions(IoConn)
    \/ ConnectSshRegChannels(IoConn)
    \/ PumpHead(IoConn)
    \/ \E r \in ReadResults : PumpRead(IoConn, r)
    \/ PumpYield(IoConn)
    \/ PumpWrite(IoConn, TRUE)
    \/ SendInput(IoId, "a")
    \/ \E d \in BatchSteps : Tick(d)

SpecPump == Init /\ [][NextPump]_vars

\* --------------------------------------------------- resize specification
\* One SSH connection with every user of its transport and resize events:
\* the I/O task, the monitoring task, an upload thread, a probe_remote_path
\* call and the resize tasks (the shell is silent, the clock stands still).
NextResize ==
    \/ ConnectSsh(IoConn, IoId, "ok")
    \/ ConnectSshRegSessions(IoConn)
    \/ ConnectSshRegChannels(IoConn)
    \/ PumpHead(IoConn)
    \/ PumpLockC(IoConn)
    \/ \E r \in InReads : PumpRead(IoConn, r)
    \/ PumpYield(IoConn)
    \/ ProberHead(IoConn)
    \/ ProberAcquire(IoConn)
    \/ \E res \in LockFetches : ProberFetch(IoConn, res)
    \/ ProberWake(IoConn)
    \/ UploadStart(IoId)
    \/ \E r \in LocalResults : UploadLocal(IoConn, r)
    \/ UploadAcquire(IoConn)
    \/ \E res \in ChunkResults : UploadChunk(IoConn, res)
    \/ UploadWake(IoConn)
    \/ ProbeStart(IoId)
    \/ ProbeAcquire(IoConn)
    \/ \E res \in ProbeResults : ProbeExec(IoConn, res)
    \/ ResizeEvent(IoConn)
    \/ ResizeAcquire(IoConn)
    \/ ResizeDone(IoConn)

SpecResize == Init /\ [][NextResize]_vars

\* --------------------------------------------------- status specification
\* One SSH connection with its monitoring task, whose fetches succeed or
\* fail in every way, its I/O task as the other user of the session, and a
\* disconnect at any point (the shell is silent).
NextStatus ==
    \/ ConnectSsh(IoConn, IoId, "ok")
    \/ ConnectSshRegSessions(IoConn)
    \/ ConnectSshRegChannels(IoConn)
    \/ DisconnectChannels(IoId)
    \/ DisconnectSessions(IoId)
    \/ PumpHead(IoConn)
    \/ PumpLockC(IoConn)
    \/ \E r \in InReads : PumpRead(IoConn, r)
    \/ PumpYield(IoConn)
    \/ PumpCancel(IoConn)
    \/ ProberHead(IoConn)
    \/ ProberAcquire(IoConn)
    \/ \E res \in FetchResults : ProberFetch(IoConn, res)
    \/ ProberWake(IoConn)
    \/ ProberCancel(IoConn)

SpecStatus == Init /\ [][NextStatus]_vars

\* --------------------------------------------------- sample specification
\* One SSH connection with its monitoring task and the clock: fetches that
\* succeed with every reading or fail, an exec that is tried again, the sleep
\* between two ticks, and the I/O task as the other user of the session (the
\* shell is silent).
ProberWakeAfterSleep(c) ==
    /\ now - prober[c].asleep >= STATUS_SLEEP_MS
    /\ ProberWake(c)

NextSample ==
    \/ ConnectSsh(IoConn, IoId, "ok")
    \/ ConnectSshRegSessions(IoConn)
    \/ ConnectSshRegChannels(IoConn)
    \/ PumpHead(IoConn)
    \/ PumpLockC(IoConn)
    \/ \E r \in InReads : PumpRead(IoConn, r)
    \/ PumpYield(IoConn)
    \/ ProberHead(IoConn)
    \/ ProberAcquire(IoConn)
    \/ ProberRetry(IoConn)
    \/ \E res \in FetchResults : ProberFetch(IoConn, res)
    \/ ProberWakeAfterSleep(IoConn)
    \/ \E d \in TickSteps : Tick(d)

SpecSample == Init /\ [][NextSample]_vars

\* --------------------------------------------- cancellation specification
\* One connection (SSH or local) with its tasks, input events and a
\* disconnect at any point; the shell is silent or ends.
NextCancel ==
    \/ ConnectSsh(IoConn, IoId, "ok")
    \/ ConnectSshRegSessions(IoConn)
    \/ ConnectSshRegChannels(IoConn)
    \/ ConnectLocal(IoConn, IoId, "ok")
    \/ ConnectLocalRegister(IoConn)
    \/ DisconnectChannels(IoId)
    \/ DisconnectSessions(IoId)
    \/ DisconnectLocal(IoId)
    \/ InputEvent(IoId, "a")
    \/ PumpHead(IoConn)
    \/ PumpLockC(IoConn)
    \/ \E r \in ListenReads : PumpRead(IoConn, r)
    \/ PumpYield(IoConn)
    \/ PumpWrite(IoConn, TRUE)
    \/ PumpCancel(IoConn)
    \/ ProberHead(IoConn)
    \/ ProberAcquire(IoConn)
    \/ \E res \in LockFetches : ProberFetch(IoConn, res)
    \/ ProberWake(IoConn)
    \/ ProberCancel(IoConn)
    \/ LocalHead(IoConn)
    \/ \E r \in RegReads : LocalRead(IoConn, r)
    \/ LocalInput(IoConn)

SpecCancel == Init /\ [][NextCancel]_vars

\* The runtime keeps running every task that can take a step: the I/O task
\* (its reads do not block) and the monitoring task of an SSH connection, the
\* loop head of the local output task and the local input task when an item
\* is on its queue.  The blocking read of the local output task returns only
\* when the shell writes or ends, and input events come only when the user
\* types: neither is bound to happen.
FairCancel ==
    /\ WF_vars(PumpHead(IoConn))
    /\ WF_vars(PumpLockC(IoConn))
    /\ WF_vars(\E r \in ListenReads : PumpRead(IoConn, r))
    /\ WF_vars(PumpYield(IoConn))
    /\ WF_vars(PumpWrite(IoConn, TRUE))
    /\ WF_vars(PumpCancel(IoConn))
    /\ WF_vars(ProberHead(IoConn))
    /\ WF_vars(ProberAcquire(IoConn))
    /\ WF_vars(\E res \in LockFetches : ProberFetch(IoConn, res))
    /\ WF_vars(ProberWake(IoConn))
    /\ WF_vars(ProberCancel(IoConn))
    /\ WF_vars(LocalHead(IoConn))
    /\ WF_vars(LocalInput(IoConn))

SpecCancelFair == SpecCancel /\ FairCancel

\* ------------------------------------------------ ended-pump specification
\* One SSH connection whose shell writes, ends or fails, with its monitoring
\* task, the calls that read its output, and a disconnect at any point (the
\* clock stands still: chunks are emitted on the size threshold).
EndReads == {<<"ok", 1100>>, <<"ok", 0>>, <<"err", "Other">>, <<"err", "WouldBlock">>}

NextEnd ==
    \/ ConnectSsh(IoConn, IoId, "ok")
    \/ ConnectSshRegSessions(IoConn)
    \/ ConnectSshRegChannels(IoConn)
    \/ DisconnectChannels(IoId)
    \/ DisconnectSessions(IoId)
    \/ PumpHead(IoConn)
    \/ PumpLockC(IoConn)
    \/ \E r \in EndReads : PumpRead(IoConn, r)
    \/ PumpYield(IoConn)
    \/ PumpCancel(IoConn)
    \/ ProberHead(IoConn)
    \/ ProberAcquire(IoConn)
    \/ \E res \in UpFetches : ProberFetch(IoConn, res)
    \/ ProberWake(IoConn)
    \/ ProberCancel(IoConn)
    \/ GetOutput(IoId)
    \/ GetBuffered(IoId)

SpecEnd == Init /\ [][NextEnd]_vars

\* ---------------------------------------------------- locking specification
\* Every user of the locks of a session at once: the I/O task, the monitoring
\* task, the resize tasks, a probe_remote_path call and an upload thread
\* (whose transfer fails at the first chunk) of a connection, with the
\* connect_ssh call that creates it and disconnect_ssh calls at any point
\* (the shell is silent, the clock stands still).
NextWait ==
    \/ ConnectSsh(IoConn, IoId, "ok")
    \/ ConnectSshRegSessions(IoConn)
    \/ ConnectSshRegChannels(IoConn)
    \/ DisconnectChannels(IoId)
    \/ DisconnectSessions(IoId)
    \/ PumpHead(IoConn)
    \/ PumpLockC(IoConn)
    \/ \E r \in InReads : PumpRead(IoConn, r)
    \/ PumpYield(IoConn)
    \/ PumpCancel(IoConn)
    \/ ProberHead(IoConn)
    \/ ProberAcquire(IoConn)
    \/ \E res \in LockFetches : ProberFetch(IoConn, res)
    \/ ProberWake(IoConn)
    \/ ProberCancel(IoConn)
    \/ UploadStart(IoId)
    \/ UploadLocal(IoConn, "data")
    \/ UploadAcquire(IoConn)
    \/ UploadChunk(IoConn, "OperationFailed")
    \/ ProbeStart(IoId)
    \/ ProbeAcquire(IoConn)
    \/ ProbeExec(IoConn, "ok")
    \/ ResizeEvent(IoConn)
    \/ ResizeAcquire(IoConn)
    \/ ResizeDone(IoConn)

SpecWait == Init /\ [][NextWait]_vars

\* ====================================================== claims C1 - C4
SshConns == {c \in Conns : conn[c].kind = "ssh" /\ pump[c].pc # "none"}

\* Whether a chunk was emitted inside the initial buffering window of c.
InWindow(c, chunk) == chunk.ts - pump[c].start <= INITIAL_BUFFERING_TIMEOUT_MS

\* C1: the k-th chunk a connection's pump (SSH I/O task or local output task)
\* has emitted carries seq = k: the first chunk has seq 1 and the sequence
\* numbers increase by one, without gaps or duplicates.
C1_SeqIsPosition ==
    \A c \in Conns :
        /\ \A k \in 1..Len(hist[c].emitted) : hist[c].emitted[k].seq = k
        /\ pump[c].pc # "none" => chan[c].next_seq = Len(hist[c].emitted) + 1

\* An SSH pump has emitted a chunk on a threshold inside the window and then
\* the chunk flushed at the end of the window.
C1_Witness ==
    \E c \in SshConns :
        /\ Len(hist[c].emitted) = 2
        /\ Len(chan[c].initial_outputs) = 1
        /\ ~pump[c].in_initial_buffering

\* C2: what get_buffered_ssh_output returns for a registered id is exactly
\* the chunks its pump emitted inside the initial buffering window, in
\* emission order, and it is a prefix of all the chunks the pump emitted.
C2_ReplayIsWindowPrefix ==
    \A i \in SessionIds :
        channels[i] # NoConn =>
            LET c == channels[i] IN
            /\ BufferedResult(i) =
                   SelectSeq(hist[c].emitted, LAMBDA k : InWindow(c, k))
            /\ IsPrefix(BufferedResult(i), hist[c].emitted)

\* The cache holds a chunk and the pump has emitted a later chunk after the
\* window expired.
C2_Witness ==
    \E i \in SessionIds :
        /\ channels[i] # NoConn
        /\ Len(BufferedResult(i)) = 1
        /\ Len(hist[channels[i]].emitted) = 2
        /\ ~InWindow(channels[i], hist[channels[i]].emitted[2])

\* C3: the results of all get_ssh_output calls on a connection, concatenated
\* in call order and followed by what is still queued, are the chunks its pump
\* emitted: no chunk is returned twice, each result is in seq order, and an
\* unregistered id gets SessionNotFound.
C3_DrainRemoves ==
    /\ \A c \in SshConns : hist[c].drained \o chan[c].outq = hist[c].emitted
    /\ \A i \in SessionIds :
           (OutputResult(i) = "SessionNotFound") <=> (channels[i] = NoConn)

\* A drain has returned a chunk and a later chunk is queued.
C3_Witness ==
    \E c \in SshConns : Len(hist[c].drained) = 1 /\ Len(chan[c].outq) = 1

\* C4 (state part): the result of an earlier get_buffered_ssh_output call is
\* a prefix of what the call returns now.
C4_EarlierIsPrefix ==
    \A c \in SshConns : IsPrefix(hist[c].replay, chan[c].initial_outputs)

\* C4 (step part): a get_buffered_ssh_output call changes neither the cache
\* nor the output queue, and once the window of a connection has expired no
\* step changes its cache.
C4_ReadOnlyStep ==
    /\ \A i \in SessionIds : GetBuffered(i) => chan' = chan
    /\ \A c \in SshConns :
           now - pump[c].start > INITIAL_BUFFERING_TIMEOUT_MS
               => chan'[c].initial_outputs = chan[c].initial_outputs

\* C4: get_buffered_ssh_output is idempotent and never removes.
C4_ReplayIdempotent == []C4_EarlierIsPrefix /\ [][C4_ReadOnlyStep]_vars

\* After the window expired, with a later chunk emitted, a call has returned
\* the one cached chunk.
C4_Witness ==
    \E c \in SshConns :
        /\ ~pump[c].in_initial_buffering
        /\ Len(hist[c].emitted) = 2
        /\ hist[c].replay = <<hist[c].emitted[1]>>
        /\ chan[c].initial_outputs = hist[c].replay

\* ====================================================== claims C5, C6, C10
\* C5 (state part): once a disconnect call on an id has returned, and until
\* an entry is inserted for the id again, the id is not registered and
\* send_ssh_input on it returns SessionNotFound; every call returns ok.
C5_GoneAfterDisconnect ==
    \A i \in SessionIds :
        /\ disc[i].ret \in {"none", "ok"} /\ disc[i].lret \in {"none", "ok"}
        /\ disc[i].fresh =>
               /\ disc[i].ret = "ok"
               /\ channels[i] = NoConn
               /\ SendResult(i) = "SessionNotFound"
        /\ disc[i].lfresh => disc[i].lret = "ok" /\ terminals[i] = NoConn

\* C5 (step part): a further disconnect call on such an id changes neither
\* the registry maps nor any connection's flags.
C5_SecondCallNoOp ==
    \A i \in SessionIds :
        /\ disc[i].fresh /\ (DisconnectChannels(i) \/ DisconnectSessions(i))
               => UNCHANGED <<sessions, channels, terminals, chan>>
        /\ disc[i].lfresh /\ DisconnectLocal(i)
               => UNCHANGED <<sessions, channels, terminals, chan>>

\* C5: disconnect is idempotent.
C5_DisconnectIdempotent ==
    []C5_GoneAfterDisconnect /\ [][C5_SecondCallNoOp]_vars

\* A registered SSH session was disconnected and a second disconnect call on
\* its id has returned as well.
C5_Witness ==
    \E i \in SessionIds, c \in Conns :
        /\ disc[i].twice
        /\ conn[c].id = i /\ conn[c].kind = "ssh" /\ conn[c].pc = "done"
        /\ chan[c].stop_flag /\ chan[c].aborted

\* C6 (state part): a connect call that failed during establishment has
\* returned an error, has started no pump, no prober and no listener, and is
\* in no registry map; a rejected password gives AuthenticationFailed.
C6_FailedConnectLeavesNothing ==
    \A c \in Conns :
        conn[c].pc = "failed" =>
            /\ conn[c].res \in {"ConnectionFailed", "OperationFailed",
                                "AuthenticationFailed", "ChannelError",
                                "TaskError", "SpawnFailed"}
            /\ conn[c].step = "auth" => conn[c].res = "AuthenticationFailed"
            /\ pump[c].pc = "none" /\ pump[c].inpc = "none"
            /\ prober[c].pc = "none"
            /\ ~conn[c].listeners
            /\ \A i \in SessionIds :
                   sessions[i] # c /\ channels[i] # c /\ terminals[i] # c

\* C6 (step part): the step in which a connect call fails leaves the
\* registry maps as they are.
C6_FailureStep ==
    \A c \in Conns :
        conn[c].pc = "idle" /\ conn'[c].pc = "failed"
            => UNCHANGED <<sessions, channels, terminals>>

\* C6: a failed connect returns an error and leaves nothing behind.
C6_FailedConnect ==
    []C6_FailedConnectLeavesNothing /\ [][C6_FailureStep]_vars

\* With a session registered, a connect_ssh for the same id was rejected at
\* authentication.
C6_Witness ==
    \E c, d \in Conns :
        /\ conn[c].pc = "failed" /\ conn[c].step = "auth"
        /\ conn[d].pc = "done" /\ conn[d].id = conn[c].id
        /\ channels[conn[d].id] = d

\* Whether the output task of a connection is running.
PumpLive(c) == pump[c].pc \notin {"none", "done"}

\* C10: of the connect calls of one kind (SSH, local) that returned Ok for
\* one session id, at most one has a running pump that emits chunks on the id's `ssh-output-<id>`
\* channel.
C10_OnePumpPerId ==
    \A c, d \in Conns :
        (/\ c # d
         /\ conn[c].pc = "done" /\ conn[d].pc = "done"
         /\ conn[c].id = conn[d].id /\ conn[c].kind = conn[d].kind
         /\ PumpLive(c) /\ PumpLive(d))
            => (hist[c].emitted = <<>> \/ hist[d].emitted = <<>>)

\* ====================================================== claims C7 - C9
\* C7: the blocking flag of a session is set only while the upload thread
\* (in a chunk) or probe_remote_path (in its probe) holds the session mutex;
\* whenever the mutex is not held the flag is false.
C7_BlockingOnlyUnderMutex ==
    \A c \in Conns :
        /\ transport[c].holder = "free" => ~transport[c].blocking
        /\ transport[c].blocking =>
               \/ transport[c].holder = "upload" /\ upload[c].pc = "chunk"
               \/ transport[c].holder = "probe" /\ probe[c].pc = "exec"

\* The mutex is free after a chunk of an upload failed (a chunk before it
\* having succeeded) and after a probe failed.
C7_Witness ==
    \E c \in Conns :
        /\ transport[c].holder = "free"
        /\ upload[c].pc = "done" /\ upload[c].err = "sftp" /\ upload[c].written >= 1
        /\ probe[c].pc = "done" /\ probe[c].res = "OperationFailed"

\* The users of a connection's SSH transport that are operating on it: the
\* I/O task in its read or its input write, the monitoring task in
\* fetch_server_status, the upload thread in a chunk, the probe in its exec.
Operating(c) ==
    {w \in {"pump", "prober", "upload", "probe"} :
        \/ w = "pump" /\ pump[c].pc \in {"read", "write"}
        \/ w = "prober" /\ prober[c].pc = "fetch"
        \/ w = "upload" /\ upload[c].pc = "chunk"
        \/ w = "probe" /\ probe[c].pc = "exec"}

\* C8: whoever operates on the transport of a session holds the session's
\* mutex; so no two of them operate at the same time.
C8_MutualExclusion ==
    \A c \in Conns :
        /\ \A w \in Operating(c) : transport[c].holder = w
        /\ Cardinality(Operating(c)) <= 1

\* An upload chunk is in transfer while the I/O task (with an input to
\* write), the monitoring task and a probe all wait for the mutex.
C8_Witness ==
    \E c \in Conns :
        /\ Operating(c) = {"upload"}
        /\ pump[c].pc = "inLockS"
        /\ Len(transport[c].waiters) = 3

\* C9 (state part): the upload thread holds the session mutex only from its
\* request to the end of a chunk, and while the I/O task waits for the mutex
\* the upload thread is given it at most once.
C9_BoundedBypass ==
    \A c \in Conns :
        /\ upload[c].pc \notin {"lock", "chunk"} => transport[c].holder # "upload"
        /\ transport[c].bypass <= 1

\* Whether the I/O task waits for the session mutex.
PumpWaiting(c) ==
    pump[c].pc \in {"lockS", "inLockS"} /\ transport[c].holder # "pump"

\* C9: during an upload the I/O task is not starved: the upload thread
\* releases the mutex after every chunk, an I/O task that waits for the mutex
\* is passed by at most one chunk, and it gets the mutex.
C9_PumpNotStarved ==
    /\ []C9_BoundedBypass
    /\ \A c \in Conns : PumpWaiting(c) ~> transport[c].holder = "pump"

\* The I/O task waits for the mutex while the upload thread, given the mutex
\* ahead of it, transfers a further chunk.
C9_Witness ==
    \E c \in Conns :
        /\ pump[c].pc = "lockS" /\ transport[c].holder = "upload"
        /\ upload[c].pc = "chunk" /\ upload[c].written >= 1
        /\ transport[c].bypass = 1

\* C9 (emission before the end of the upload): when an upload of at least
\* one chunk has finished with success, no output that arrived and was read
\* during the upload is still waiting to be emitted.
C9_EmittedBeforeUploadEnds ==
    \A c \in Conns :
        (/\ upload[c].pc = "done" /\ upload[c].res = "success"
         /\ upload[c].written >= 1)
            => ~hist[c].held

\* ====================================================== claims C11 - C20
\* Whether the entry a connect call inserted has left its registry map.
Left(c) ==
    /\ conn[c].pc = "done"
    /\ \/ conn[c].kind = "ssh" /\ channels[conn[c].id] # c
       \/ conn[c].kind = "local" /\ terminals[conn[c].id] # c

\* C11: an entry that has left the registry (by a disconnect or by the
\* insertion of another entry under its id) has its stop flag set and its
\* task handles aborted.
C11_LeavesOnlyTerminating ==
    \A c \in Conns : Left(c) => chan[c].stop_flag /\ chan[c].aborted

\* A step in which an `ssh-status-<id>` event (the monitoring task, after a
\* fetch that returned Ok) or an `upload-progress` event (the upload thread,
\* after a chunk or at its end) of the connection is emitted.
StatusOrProgressStep(c) ==
    \/ \E x \in Readings : ProberFetch(c, <<"ok", x>>)
    \/ \E res \in ChunkResults : UploadChunk(c, res)
    \/ \E r \in {"eof", "err"} : UploadLocal(c, r)

\* C12 (step part): a connection's status and upload-progress events are
\* emitted only once its I/O task has emitted a first output chunk.
C12_OutputBeforeStep ==
    \A c \in Conns : StatusOrProgressStep(c) => hist[c].emitted # <<>>

\* C12: the first output chunk of a session precedes every status event and
\* every upload-progress event of the session.
C12_FirstOutputFirst == [][C12_OutputBeforeStep]_vars

\* Whether s can be obtained from t by leaving items out.
RECURSIVE IsSubseq(_, _)
IsSubseq(s, t) ==
    IF s = <<>> THEN TRUE
    ELSE IF t = <<>> THEN FALSE
    ELSE IF Head(s) = Head(t) THEN IsSubseq(Tail(s), Tail(t))
    ELSE IsSubseq(s, Tail(t))

\* The inputs of a connection that were accepted and not yet written: the
\* one its task has taken from the queue (if any), then the queue.
PendingInputs(c) ==
    (IF pump[c].cur = "none" THEN <<>> ELSE <<pump[c].cur>>) \o chan[c].inq

\* C13: the inputs accepted on a connection's queue are taken from it, and
\* written to its shell, in the order they were accepted: what is pending is
\* the tail of the accepted inputs in their order, and what was written is,
\* in order and without repetition, drawn from the accepted inputs before that tail.
C13_InputFifo ==
    \A c \in Conns :
        \E k \in 0..Len(hist[c].accepted) :
            /\ PendingInputs(c) =
                   SubSeq(hist[c].accepted, k + 1, Len(hist[c].accepted))
            /\ IsSubseq(hist[c].written, SubSeq(hist[c].accepted, 1, k))

\* An SSH connection's I/O task has written two different inputs, in the
\* order they were accepted, and is back at the head of its loop.
C13_Witness ==
    \E c \in SshConns :
        /\ hist[c].accepted = <<"a", "b">>
        /\ hist[c].written = hist[c].accepted
        /\ pump[c].pc = "head"

\* The events an upload thread has emitted, and its terminal events.
Events(c) == upload[c].events
IsTerminal(e) == e.status \in {"success", "error"}

\* C14 (state part): the events of an upload thread are `uploading` events
\* with strictly increasing uploaded bytes, followed, exactly when the thread
\* has ended, by one terminal event: success with progress 100, or error
\* with its message.
C14_EventsWellFormed ==
    \A c \in Conns :
        /\ \A k \in 1..Len(Events(c)) :
               IsTerminal(Events(c)[k]) <=>
                   (k = Len(Events(c)) /\ upload[c].pc = "done")
        /\ \A k \in 1..Len(Events(c)) :
               /\ Events(c)[k].status = "success" => Events(c)[k].progress = 100
               /\ Events(c)[k].status = "error" => Events(c)[k].error # "none"
        /\ \A j, k \in 1..Len(Events(c)) :
               (/\ j < k
                /\ Events(c)[j].status = "uploading"
                /\ Events(c)[k].status = "uploading")
                   => Events(c)[j].bytes < Events(c)[k].bytes
        /\ upload[c].pc = "done" => Events(c) # <<>>

\* C14 (step part): an upload thread that has emitted its terminal event
\* does nothing further: no event, no chunk, no use of the session.
C14_NothingAfterTerminal ==
    \A c \in Conns :
        (Events(c) # <<>> /\ IsTerminal(Events(c)[Len(Events(c))]))
            => /\ upload'[c] = upload[c]
               /\ transport'[c].holder = "upload" => transport[c].holder = "upload"

\* C14: uploading events with increasing bytes, then exactly one terminal
\* event, then nothing; no retry after an error.
C14_UploadEvents == []C14_EventsWellFormed /\ [][C14_NothingAfterTerminal]_vars

\* An upload has failed in its third chunk, after two progress events.
C14_Witness ==
    \E c \in Conns :
        /\ Len(Events(c)) = 3
        /\ Events(c)[3].status = "error"
        /\ Events(c)[2].status = "uploading"
        /\ upload[c].written = 2

\* C15: when an upload has ended with success, the remote file exists with
\* exactly the content of the local file (everything the thread read from it,
\* in order), whatever the size of the local file.
C15_RemoteEqualsLocal ==
    \A c \in Conns :
        upload[c].res = "success" =>
            upload[c].remote = [st |-> "written",
                                data |-> LocalData(0, upload[c].bytes)]

\* C16 (state part): an upload_file_sftp call on an id without entry returns
\* SessionNotFound; the call that started an upload thread returned Ok, and
\* that stays its result whatever becomes of the thread, whose failure is its
\* last event.
C16_ResultOfCall ==
    /\ \A i \in SessionIds : disc[i].upret \in {"none", "SessionNotFound"}
    /\ \A c \in Conns :
           /\ upload[c].pc # "none" => upload[c].ret = "ok"
           /\ upload[c].res = "error" =>
                  Events(c)[Len(Events(c))].status = "error"

\* C16 (step part): a call on an id without entry starts no thread and emits
\* no event; a call on a registered id returns with the thread dispatched,
\* no chunk transferred, no event emitted and the session mutex untouched.
C16_CallStep ==
    \A i \in SessionIds :
        /\ UploadNotFound(i) => UNCHANGED <<upload, transport>>
        /\ UploadStart(i) =>
               /\ transport' = transport
               /\ \A c \in Conns :
                      upload'[c] # upload[c] =>
                          /\ upload'[c].pc = "local"
                          /\ upload'[c].written = 0
                          /\ upload'[c].events = <<>>

\* C16: upload_file_sftp reports only the lookup through its result.
C16_UploadReturns == []C16_ResultOfCall /\ [][C16_CallStep]_vars

\* A call on the id found no entry, and the upload a call on the id started
\* has failed in an SFTP transfer.
C16_Witness ==
    \E i \in SessionIds, c \in Conns :
        /\ conn[c].id = i
        /\ disc[i].upret = "SessionNotFound"
        /\ upload[c].ret = "ok"
        /\ upload[c].res = "error" /\ upload[c].err = "sftp"

\* C17 (step part): once the session of an upload thread has been
\* disconnected, the thread's next request for the session mutex is not
\* served: the thread neither waits for the mutex nor gets it.
C17_NoLockStep ==
    \A c \in Conns :
        (chan[c].aborted /\ upload[c].pc = "local")
            => upload'[c].pc \notin {"lock", "chunk"}

\* C17: after a disconnect the upload transfers no further chunk.
C17_UploadStopsAtDisconnect == [][C17_NoLockStep]_vars

\* Whether a connection was disconnected and the tasks the disconnect
\* aborted have ended, with no upload, probe or resize task under way.
Disconnected(c) ==
    /\ Left(c) /\ chan[c].aborted
    /\ pump[c].pc = "done"
    /\ prober[c].pc \in {"none", "done"}
    /\ upload[c].pc \in {"none", "done"}
    /\ probe[c].pc \in {"none", "done"}
    /\ resize[c].pc = "none"

\* C18: once a connection is disconnected and its aborted tasks have ended,
\* nothing holds its transport any more.
C18_TransportDropped ==
    \A c \in Conns : Disconnected(c) => TransportRefs(c) = {}

\* C19 (step part): while the stop flag of a connection is set, an input
\* event puts nothing on its input queue, and a resize event neither spawns
\* a resize task for it nor changes the size of its PTY.
C19_NoOpStep ==
    \A c \in Conns :
        chan[c].stop_flag =>
            /\ \A x \in Inputs : InputEvent(conn[c].id, x) =>
                   chan'[c].inq = chan[c].inq
            /\ ~ResizeEvent(c)
            /\ ~LocalResize(c)

\* C19: the listeners of a stopped session are no-ops.
C19_ListenersStop == [][C19_NoOpStep]_vars

\* Whether no connect call has run since the snapshot of the disconnect_all
\* call in flight was taken: none was running then, none has started since.
NoConnectSince ==
    \A i \in SessionIds :
        ~disc[i].busy /\ disc[i].started = {c \in Conns : conn[c].pc # "idle"}

\* C20 (state part): once the snapshot is taken, disconnect_all does not
\* hold the read lock on channels.
C20_LockReleased == \A i \in SessionIds : ~disc[i].rlock

\* C20 (step part): when disconnect_all returns and no connect call ran
\* during it, no id has a session or a channels entry.
C20_ReturnStep ==
    (DisconnectAllReturn /\ NoConnectSince)
        => \A i \in SessionIds : ~HasSession(i) /\ channels[i] = NoConn

\* C20: disconnect_all takes its snapshot, releases the lock, disconnects
\* every id of the snapshot, and returns (it does not block for ever on a
\* registry lock), with the registry empty when no connect call ran meanwhile.
C20_DisconnectAll ==
    /\ []C20_LockReleased
    /\ [][C20_ReturnStep]_vars
    /\ AllInFlight ~> ~AllInFlight

\* A disconnect_all call with two ids in its snapshot has disconnected one
\* and is in the disconnect_ssh of the other, no connect call having run
\* since the snapshot.
C20_Witness ==
    /\ NoConnectSince
    /\ \E i, j \in SessionIds :
           /\ disc[i].all = "done" /\ disc[j].all = "doing"
           /\ ~HasSession(i) /\ HasSession(j)
\* ====================================================== claims C21 - C30
\* C21: a connect_ssh call that failed at the SSH handshake has returned
\* ConnectionFailed, as one that failed at address resolution or at the TCP
\* connect has.
C21_HandshakeConnectionFailed ==
    \A c \in Conns :
        (/\ conn[c].pc = "failed" /\ conn[c].kind = "ssh"
         /\ conn[c].step \in {"resolve", "tcp", "handshake"})
            => conn[c].res = "ConnectionFailed"

\* The calls on a connection that wait for its session mutex or operate on
\* its transport on a thread of their own.
TransportCalls(c) ==
    {k \in {"upload_file_sftp", "probe_remote_path"} :
        \/ k = "upload_file_sftp" /\ upload[c].pc \in {"lock", "chunk"}
        \/ k = "probe_remote_path" /\ probe[c].pc \in {"lock", "exec"}}

\* C22: while a call waits for a session mutex or transfers on the
\* transport, it holds no registry lock: nobody holds the read lock on
\* channels, and a disconnect_ssh call on any id can take the write lock.
C22_RegistryFreeDuringIo ==
    \A c \in Conns :
        TransportCalls(c) # {} =>
            /\ ~ChannelsReadHeld
            /\ \A i \in SessionIds :
                   (disc[i].pc = "idle" /\ ~AllInFlight)
                       => ENABLED DisconnectChannels(i)

\* A disconnect_ssh call has removed the entry of a session while a chunk of
\* an upload on it is in transfer and a probe waits for the session mutex.
C22_Witness ==
    \E c \in Conns :
        /\ upload[c].pc = "chunk" /\ probe[c].pc = "lock"
        /\ conn[c].pc = "done" /\ channels[conn[c].id] = NoConn

\* C23 (read step): a read of the I/O task that returns 0 bytes or an error
\* other than WouldBlock sets the stop flag and ends the task in that step,
\* with nothing emitted and no input taken or written; a read that returns
\* WouldBlock leaves the stop flag as it is and the task yields.
C23_ReadStep ==
    \A c \in Conns : \A r \in ReadResults :
        PumpRead(c, r) =>
            /\ ((r[1] = "ok" /\ r[2] = 0) \/ (r[1] = "err" /\ r[2] # "WouldBlock"))
                   => /\ chan'[c].stop_flag /\ pump'[c].pc = "done"
                      /\ hist'[c].emitted = hist[c].emitted
                      /\ hist'[c].written = hist[c].written
                      /\ chan'[c].outq = chan[c].outq /\ chan'[c].inq = chan[c].inq
            /\ (r[1] = "err" /\ r[2] = "WouldBlock")
                   => /\ chan'[c].stop_flag = chan[c].stop_flag
                      /\ pump'[c].pc = "yield"

\* C23 (afterwards): an I/O task that has ended reads, emits and writes
\* nothing further, and a task that yielded goes on with its iteration.
C23_AfterStep ==
    \A c \in Conns :
        /\ pump[c].pc = "done" =>
               /\ pump'[c] = pump[c]
               /\ hist'[c].emitted = hist[c].emitted
               /\ hist'[c].written = hist[c].written
               /\ hist'[c].reads = hist[c].reads
        /\ (pump[c].pc = "yield" /\ pump'[c] # pump[c]) =>
               pump'[c].pc \in {"head", "write", "inLockS"}

\* C23: end of stream and read errors stop the I/O task at once; WouldBlock
\* only yields.
C23_ReadOutcomes == [][C23_ReadStep]_vars /\ [][C23_AfterStep]_vars

\* An I/O task has ended on a read while it had output pending and an input
\* queued, after an earlier read that found no data.
C23_Witness ==
    \E c \in SshConns :
        /\ pump[c].pc = "done" /\ chan[c].stop_flag /\ ~chan[c].aborted
        /\ pump[c].pending > 0 /\ chan[c].inq # <<>>
        /\ hist[c].emitted = <<>>

\* C24: while a resize task changes the PTY size of a session it holds the
\* session mutex: no status fetch, probe exec or SFTP chunk is under way on
\* the session and the session is not in blocking mode.
C24_ResizeUnderMutex ==
    \A c \in Conns :
        resize[c].pc = "resize" =>
            /\ transport[c].holder = "resize"
            /\ Operating(c) \cap {"prober", "upload", "probe"} = {}
            /\ ~transport[c].blocking

\* Whether a step of the I/O task of c emits a chunk.
Emits(c) == Len(hist'[c].emitted) > Len(hist[c].emitted)

\* C25 (one decision, with p bytes pending): inside the initial buffering
\* window a chunk is emitted exactly when p exceeds 200 bytes or more than
\* 100 ms have passed since the last emission; after the window (the
\* iteration that ends the window aside) exactly when p exceeds 1024 bytes
\* or more than 20 ms have passed.
C25_Decision(c, p) ==
    IF now - pump[c].start <= INITIAL_BUFFERING_TIMEOUT_MS
    THEN Emits(c) <=>
             (p > 0 /\ (\/ p > INITIAL_BATCH_SIZE_THRESHOLD
                        \/ now - pump[c].last_emit > INITIAL_BATCH_TIME_MS))
    ELSE pump[c].in_initial_buffering
         \/ (Emits(c) <=>
                 (p > 0 /\ (\/ p > NORMAL_BATCH_SIZE_THRESHOLD
                            \/ now - pump[c].last_emit > NORMAL_BATCH_TIME_MS)))

C25_DecisionStep ==
    \A c \in Conns :
        /\ PumpYield(c) => C25_Decision(c, pump[c].pending)
        /\ \A r \in ReadResults :
               (IsData(r) /\ PumpRead(c, r)) => C25_Decision(c, pump[c].pending + r[2])

\* C25: the batching regime of every emission decision is set by the window
\* alone: initial thresholds before it has expired (also after a first
\* chunk), normal thresholds after.
C25_RegimeByWindow == [][C25_DecisionStep]_vars

\* C26 (one iteration, with p bytes pending): when it is the first to reach
\* the check after the window has expired, the in-window flag is cleared,
\* the pending bytes, if any, are emitted as one chunk, whatever their size
\* and the time since the last emission, and nothing stays pending.
C26_Expiry(c, p) ==
    (pump[c].in_initial_buffering
     /\ now - pump[c].start > INITIAL_BUFFERING_TIMEOUT_MS)
        => /\ ~pump'[c].in_initial_buffering
           /\ pump'[c].pending = 0
           /\ hist'[c].emitted = hist[c].emitted \o
                  (IF p > 0 THEN <<OutputChunk(chan[c].next_seq, p, now)>>
                   ELSE <<>>)

\* C26 (steps): the iterations of the I/O task at the end of the window, and
\* the in-window flag, which is cleared only then and never set again.
C26_ExpiryStep ==
    \A c \in Conns :
        /\ PumpYield(c) => C26_Expiry(c, pump[c].pending)
        /\ \A r \in ReadResults :
               (IsData(r) /\ PumpRead(c, r)) => C26_Expiry(c, pump[c].pending + r[2])
        /\ (pump[c].pc # "none" /\ ~pump[c].in_initial_buffering)
               => ~pump'[c].in_initial_buffering
        /\ (pump[c].in_initial_buffering /\ ~pump'[c].in_initial_buffering)
               => now - pump[c].start > INITIAL_BUFFERING_TIMEOUT_MS

\* C26: the flush at the end of the initial buffering window.
C26_FlushAtExpiry == [][C26_ExpiryStep]_vars

\* The window has ended with a flush of fewer than 1024 bytes no more than
\* 20 ms after the chunk before it.
C26_Witness ==
    \E c \in SshConns :
        /\ ~pump[c].in_initial_buffering /\ pump[c].pending = 0
        /\ Len(hist[c].emitted) = 2
        /\ hist[c].emitted[2].len <= NORMAL_BATCH_SIZE_THRESHOLD
        /\ hist[c].emitted[2].ts - hist[c].emitted[1].ts <= NORMAL_BATCH_TIME_MS
        /\ hist[c].emitted[2].ts - pump[c].start > INITIAL_BUFFERING_TIMEOUT_MS

\* The time threshold of the regime an iteration of c is in: the initial one
\* inside the window, the normal one after it.
C27_Threshold(c) ==
    IF now - pump[c].start <= INITIAL_BUFFERING_TIMEOUT_MS
    THEN INITIAL_BATCH_TIME_MS ELSE NORMAL_BATCH_TIME_MS

\* C27 (steps): when an iteration of a running I/O task makes its emission
\* decision more than the regime's time threshold after the oldest pending
\* byte was read, it emits, and nothing stays pending.
C27_BoundStep ==
    \A c \in Conns :
        (/\ PumpYield(c) \/ \E r \in ReadResults : IsData(r) /\ PumpRead(c, r)
         /\ pump[c].pending > 0
         /\ now - hist[c].since > C27_Threshold(c))
            => Emits(c) /\ pump'[c].pending = 0

Reported(c) ==
    <<chan[c].stop_flag, chan[c].aborted, chan[c].next_seq,
      chan[c].initial_outputs, chan[c].outq, hist[c].emitted>>

\* C28 (steps): a write of an input that fails is recorded, and the I/O task
\* goes on: the stop flag and the registry stay as they are, and the next
\* queued input is taken to be written.
C28_FailedWriteStep ==
    \A c \in Conns :
        PumpWrite(c, FALSE) =>
            /\ Reported(c)' # Reported(c)
            /\ chan'[c].stop_flag = chan[c].stop_flag
            /\ UNCHANGED <<sessions, channels>>
            /\ pump'[c].pc \in {"head", "write", "inLockS"}
            /\ chan[c].inq # <<>> => pump'[c].cur = Head(chan[c].inq)

\* C28: a failed input write is recorded and does not end the session.
C28_WriteFailureRecorded == [][C28_FailedWriteStep]_vars

\* C29: every chunk the output task of a session (SSH or local) has emitted
\* as an `ssh-output-<id>` event was also pushed on the session's output
\* queue: the events are what was drained from the queue so far followed by
\* what is still on it.
C29_BothSinks ==
    \A c \in Conns :
        pump[c].pc # "none" =>
            hist[c].emitted = hist[c].drained \o chan[c].outq

\* C30 (failed tick): a fetch of the monitoring task that fails emits no
\* `ssh-status` event, leaves the stop flag, the registry and the last CPU
\* and network readings as they are, and the task goes to its sleep.
C30_FailedTickStep ==
    \A c \in Conns : \A e \in FetchErrors :
        ProberFetch(c, <<"err", e>>) =>
            /\ prober'[c].statuses = prober[c].statuses
            /\ chan'[c].stop_flag = chan[c].stop_flag
            /\ UNCHANGED <<sessions, channels>>
            /\ prober'[c].last_cpu_read = prober[c].last_cpu_read
            /\ prober'[c].last_net_read = prober[c].last_net_read
            /\ prober'[c].pc = "sleep"

\* C30 (next tick): from its sleep the task goes to the head of its loop
\* (unless it was aborted), and from there, with the stop flag unset, to
\* its next fetch.
C30_NextTickStep ==
    \A c \in Conns :
        /\ (prober[c].pc = "sleep" /\ prober'[c] # prober[c])
               => prober'[c].pc = "head" \/ chan[c].aborted
        /\ (prober[c].pc = "head" /\ prober'[c] # prober[c] /\ ~chan[c].stop_flag)
               => prober'[c].pc \in {"lock", "fetch"}

\* C30: a status tick that fails is swallowed for that tick.
C30_FailedTickSwallowed == [][C30_FailedTickStep]_vars /\ [][C30_NextTickStep]_vars

\* After a status was emitted a fetch failed for too few lines of output;
\* the session is registered and running, the readings of the first fetch
\* are kept, and the next fetch is under way.
C30_Witness ==
    \E c \in SshConns :
        /\ prober[c].pc = "fetch" /\ prober[c].res = "OperationFailed"
        /\ Len(prober[c].statuses) = 1
        /\ prober[c].last_cpu_read = prober[c].statuses[1].raw
        /\ ~chan[c].stop_flag /\ channels[conn[c].id] = c

\* ====================================================== claims C31 - C40
\* The last status a connection's monitoring task has emitted.
LastStatus(p) == p.statuses[Len(p.statuses)]

\* C31 (one sample): the first status of a session has CPU usage and network
\* speeds 0; a later one has CPU usage 0 when the total CPU counter is not
\* above that of the sample before it and between 0 and 100 otherwise, and
\* network speeds that are max(0, current - previous) over the time since
\* the sample before it, so not negative and below the raw counter.
C31_Sample(c, x) ==
    LET s == LastStatus(prober'[c])
        n == Len(prober[c].statuses)
        before == Raw(prober[c].statuses[n].raw)
        ms == now - prober[c].last_net_time
        Max0(v) == IF v > 0 THEN v ELSE 0
    IN IF n = 0
       THEN s.cpu_usage = 0 /\ s.net_up = 0 /\ s.net_down = 0
       ELSE /\ Raw(x).cpu_total <= before.cpu_total => s.cpu_usage = 0
            /\ s.cpu_usage \in 0..100
            /\ ms > 0
            /\ s.net_down = (Max0(Raw(x).rx - before.rx) * 1000) \div ms
            /\ s.net_up = (Max0(Raw(x).tx - before.tx) * 1000) \div ms
            /\ s.net_down >= 0 /\ s.net_up >= 0
            /\ s.net_down < Raw(x).rx /\ s.net_up < Raw(x).tx

C31_SampleStep ==
    \A c \in Conns : \A x \in Readings :
        ProberFetch(c, <<"ok", x>>) => C31_Sample(c, x)

\* C31: the CPU usage and the network speeds of every emitted status.
C31_StatusValues == [][C31_SampleStep]_vars

\* Two statuses were emitted and at the second the network counters were
\* below those of the first and the total CPU counter had not advanced: its
\* speeds and its CPU usage are 0.
C31_Witness ==
    \E c \in SshConns :
        /\ Len(prober[c].statuses) = 2
        /\ Raw(prober[c].statuses[2].raw).rx < Raw(prober[c].statuses[1].raw).rx
        /\ Raw(prober[c].statuses[2].raw).cpu_total
               = Raw(prober[c].statuses[1].raw).cpu_total
        /\ prober[c].statuses[2].net_down = 0
        /\ prober[c].statuses[2].cpu_usage = 0
        /\ prober[c].statuses[1].cpu_usage = 0

\* C32: the latency of an emitted status is the time from the moment the
\* monitoring task had the session mutex and issued its exec to the end of
\* the fetch; the wait for the mutex is not in it.
C32_LatencyStep ==
    \A c \in Conns : \A x \in Readings :
        ProberFetch(c, <<"ok", x>>) =>
            LastStatus(prober'[c]).latency = now - hist[c].exec_at

C32_LatencyFromExec == [][C32_LatencyStep]_vars

\* C33 (steps): an exec that would block is tried again in the same tick
\* with the mutex still held and nothing else changed, and does not fail the
\* tick; the fetch that ends, with any result, releases the mutex and ends
\* the tick, with a status emitted exactly when it succeeded.
C33_RetryStep ==
    \A c \in Conns :
        /\ ProberRetry(c) =>
               /\ Holds(transport[c], "prober") /\ transport'[c] = transport[c]
               /\ prober'[c].pc = "fetch"
               /\ prober'[c].start_time = prober[c].start_time
               /\ prober'[c].res = prober[c].res
               /\ prober'[c].statuses = prober[c].statuses
        /\ \A res \in FetchResults :
               ProberFetch(c, res) =>
                   /\ Holds(transport[c], "prober")
                   /\ ~Holds(transport'[c], "prober")
                   /\ prober'[c].pc = "sleep"
                   /\ prober'[c].res = "ok" <=> res[1] = "ok"
                   /\ Len(prober'[c].statuses) > Len(prober[c].statuses)
                          <=> res[1] = "ok"

\* C33: a would-block result of the status exec is retried within the tick
\* under the transport mutex.
C33_RetryInTick == [][C33_RetryStep]_vars

\* A tick whose exec was tried again has ended with a status, and the I/O
\* task, which waited meanwhile, was handed the mutex.
C33_Witness ==
    \E c \in SshConns :
        /\ prober[c].pc = "sleep" /\ prober[c].res = "ok"
        /\ prober[c].retries > 0
        /\ Len(prober[c].statuses) = 1
        /\ transport[c].holder = "pump"

\* Whether every background task of a connection has ended: the I/O task and
\* the monitoring task (SSH), the output task and the input task (local).
TasksEnded(c) ==
    /\ pump[c].pc = "done"
    /\ conn[c].kind = "ssh" => prober[c].pc = "done"
    /\ conn[c].kind = "local" => pump[c].inpc = "done"

\* C34: once a disconnect has set the stop flag of a connection and aborted
\* its handles, every background task of the connection ends, also when the
\* shell stays silent and no input comes.
C34_CancellationReaches ==
    \A c \in Conns : (Left(c) /\ chan[c].aborted) ~> TasksEnded(c)

\* The number of bytes in a sequence of chunks.
RECURSIVE ChunkBytes(_)
ChunkBytes(q) == IF q = <<>> THEN 0 ELSE Head(q).len + ChunkBytes(Tail(q))

\* C35: the bytes an SSH I/O task has read are the bytes of the chunks it has
\* emitted followed by those still pending, and a task that has ended has
\* nothing pending: no byte that was read is dropped.
C35_NoOutputLost ==
    \A c \in SshConns :
        /\ ChunkBytes(hist[c].emitted) + pump[c].pending = hist[c].read_bytes
        /\ pump[c].pc = "done" => pump[c].pending = 0

\* C36: when an `ssh-output` or `ssh-status` event of an SSH connection has
\* been emitted and the connection's id was not disconnected, the id has an
\* entry in the registry: send_ssh_input and get_buffered_ssh_output do not
\* return SessionNotFound.
C36_NoEventBeforeRegistration ==
    \A c \in SshConns :
        (/\ hist[c].emitted # <<>> \/ prober[c].statuses # <<>>
         /\ ~disc[conn[c].id].gone)
            => /\ channels[conn[c].id] # NoConn
               /\ SendResult(conn[c].id) # "SessionNotFound"

\* C37: whenever has_session can return (no connect_ssh holds the write
\* lock on `sessions`), it is true for an id exactly when send_ssh_input on
\* the id does not return SessionNotFound: `sessions` and `channels` have
\* the same keys.
C37_MapsConsistent ==
    \A i \in SessionIds :
        sessionsW = NoConn =>
            (HasSession(i) <=> SendResult(i) # "SessionNotFound")

\* Whether a disconnect call on the id of connection c has returned after c
\* was registered, with no entry inserted under the id since.
DisconnectReturned(c) ==
    /\ Left(c)
    /\ \/ conn[c].kind = "ssh" /\ disc[conn[c].id].fresh
       \/ conn[c].kind = "local" /\ disc[conn[c].id].lfresh

\* One step taken after the disconnect of c has returned.
C38_SilentStep ==
    \A c \in Conns :
        DisconnectReturned(c) =>
            /\ ~Emits(c)
            /\ prober'[c].statuses = prober[c].statuses

\* C38: after the disconnect call on its id has returned, the tasks of a
\* connection (SSH or local) emit no further output chunk and no further
\* status, whatever iteration of the I/O task or tick of the monitoring task
\* was in progress when disconnect ran.
C38_NoEventAfterDisconnect == [][C38_SilentStep]_vars

\* Whether no disconnect_ssh call on an id has begun.
NoDisconnectCalled(i) == disc[i].pc = "idle" /\ disc[i].ret = "none"

\* Whether the I/O task of an SSH connection has ended by itself: connect_ssh
\* has returned, the task is over and no disconnect was called on the id.
EndedByItself(c) ==
    /\ conn[c].kind = "ssh"
    /\ conn[c].pc = "done"
    /\ pump[c].pc = "done"
    /\ NoDisconnectCalled(conn[c].id)

\* The state of a connection whose I/O task has ended by itself.
C39_EndedState ==
    \A c \in Conns :
        EndedByItself(c) =>
            /\ channels[conn[c].id] = c
            /\ HasSession(conn[c].id)
            /\ SendResult(conn[c].id) = "ChannelError"
            /\ chan[c].stop_flag
            /\ hist[c].drained \o OutputResult(conn[c].id) = hist[c].emitted
            /\ BufferedResult(conn[c].id) = chan[c].initial_outputs

\* The steps around the end: the read that ends the task leaves the two
\* maps, the output queue and the replay cache as they are; afterwards the
\* monitoring task ends at its loop head and get_ssh_output returns what is
\* queued.
C39_EndedStep ==
    /\ \A c \in Conns, r \in EndReads :
           (IsFatal(r) /\ PumpRead(c, r)) =>
               /\ channels' = channels /\ sessions' = sessions
               /\ chan'[c].outq = chan[c].outq
               /\ chan'[c].initial_outputs = chan[c].initial_outputs
    /\ \A c \in Conns :
           EndedByItself(c) =>
               /\ ProberHead(c) => prober'[c].pc = "done"
               /\ GetOutput(conn[c].id) => hist'[c].drained = hist[c].emitted

\* C39: when the I/O task of an SSH connection has ended by itself (end of
\* stream or read error) and no disconnect was called, the entry is still in
\* both maps (has_session is true), get_ssh_output and
\* get_buffered_ssh_output return the chunks queued and captured, the
\* monitoring task ends at its next loop head, and send_ssh_input returns
\* ChannelError.
C39_EndedPumpKeepsEntry == []C39_EndedState /\ [][C39_EndedStep]_vars

\* The I/O task has ended by itself with a chunk still queued and one
\* captured, and the monitoring task has ended after it.
C39_Witness ==
    \E c \in Conns :
        /\ EndedByItself(c)
        /\ chan[c].outq # <<>>
        /\ chan[c].initial_outputs # <<>>
        /\ prober[c].pc = "done"
        /\ SendResult(conn[c].id) = "ChannelError"

\* The users of the two mutexes of a connection's transport.
LockUsers == {"pump", "prober", "upload", "probe", "resize"}

\* The position of a user.
UserPc(c, w) ==
    CASE w = "pump" -> pump[c].pc
      [] w = "prober" -> prober[c].pc
      [] w = "upload" -> upload[c].pc
      [] w = "probe" -> probe[c].pc
      [] w = "resize" -> resize[c].pc

\* The user that holds the mutex user w of connection c waits for ("free"
\* when w does not wait): the I/O task waits for the session mutex and then,
\* holding it, for the channel mutex; the resize task for the channel mutex;
\* the others for the session mutex.
WaitsFor(c, w) ==
    LET t == transport[c]
    IN CASE w = "pump" ->
              IF pump[c].pc \notin {"lockS", "inLockS"} THEN "free"
              ELSE IF t.holder # "pump" THEN t.holder
              ELSE IF t.chHolder # "pump" THEN t.chHolder
              ELSE "free"
         [] w = "resize" ->
              IF resize[c].pc = "lock" THEN t.chHolder ELSE "free"
         [] OTHER ->
              IF UserPc(c, w) = "lock" /\ t.holder # w THEN t.holder ELSE "free"

\* The registry calls in flight: connect_ssh of a connection, disconnect_ssh
\* on an id.
ConnectCaller(c) == [k |-> "connect", c |-> c, i |-> "none"]
DisconnectCaller(i) == [k |-> "disconnect", c |-> NoConn, i |-> i]
Callers == {ConnectCaller(c) : c \in Conns} \cup {DisconnectCaller(i) : i \in SessionIds}

\* The callers that hold the write lock on sessions, and on channels.
SessionsHolders ==
    IF sessionsW = NoConn THEN {} ELSE {ConnectCaller(sessionsW)}
ChannelsHolders ==
    {DisconnectCaller(i) : i \in {j \in SessionIds : disc[j].pc = "sessions"
                                                      /\ ChannelsGuardKept}}

\* The callers that hold the lock a caller waits for.
CallerWaitsFor(p) ==
    IF p.k = "connect"
    THEN IF conn[p.c].kind = "ssh" /\ conn[p.c].pc = "spawned" THEN SessionsHolders
         ELSE IF conn[p.c].kind = "ssh" /\ conn[p.c].pc = "regS" THEN ChannelsHolders
         ELSE {}
    ELSE IF disc[p.i].pc = "sessions" THEN SessionsHolders ELSE {}

\* C40: no set of lock users is such that each of them waits for a lock
\* held by another of the set, among the users of the session mutex and the
\* channel mutex of a connection and among the calls that take the write
\* locks on `sessions` and `channels`; and a mutex that is held is held by a
\* user that is still running.
C40_NoDeadlock ==
    /\ \A c \in Conns :
           /\ \A S \in SUBSET LockUsers :
                  S # {} => \E w \in S : WaitsFor(c, w) \notin S
           /\ transport[c].holder # "free" =>
                  UserPc(c, transport[c].holder) \notin {"none", "done"}
           /\ transport[c].chHolder # "free" =>
                  UserPc(c, transport[c].chHolder) \notin {"none", "done"}
    /\ \A S \in SUBSET Callers :
           S # {} => \E p \in S : CallerWaitsFor(p) \cap S = {}

\* The monitoring task waits for the session mutex, which the I/O task
\* holds while it waits for the channel mutex, which a resize task holds;
\* and a disconnect_ssh call waits for the lock on sessions, which the
\* connect_ssh call holds.
C40_Witness ==
    \E c \in Conns :
        /\ WaitsFor(c, "prober") = "pump"
        /\ WaitsFor(c, "pump") = "resize"
        /\ conn[c].pc = "regS"
        /\ CallerWaitsFor(DisconnectCaller(conn[c].id)) = {ConnectCaller(c)}

\* An upload thread and a probe_remote_path call wait for the session mutex
\* while the I/O task, holding it, waits for the channel mutex.
C40_WitnessThreads ==
    \E c \in Conns :
        /\ WaitsFor(c, "upload") = "pump"
        /\ WaitsFor(c, "probe") = "pump"
        /\ WaitsFor(c, "pump") = "resize"
====
